---- MODULE Spec2Model ----
(***************************************************************************)
(* Model of the generation gateway of cbeta-rag (app/services/llm.py):     *)
(* configuration resolution (LLMConfig.from_request), the fallback state   *)
(* machine (LLMService.chat, LLMService._try_fallback, LLMConfig.          *)
(* to_fallback), the dispatch to a protocol adapter (_call_llm) and the    *)
(* unary and streaming adapters; and of the relevance reranker             *)
(* (app/services/reranker.py): the embedding fan-out, the score fusion,    *)
(* the ordering and the degraded paths of RerankerService.rerank; and of    *)
(* the pipeline (app/core/rag.py): RAGPipeline.search and RAGPipeline.ask. *)
(*                                                                         *)
(* Python's None is the value None below; a Python string is a TLA+        *)
(* string.  The Chinese text of the f-strings is rendered in ASCII, the    *)
(* interpolated fields are kept.                                           *)
(***************************************************************************)
EXTENDS Integers, Sequences, FiniteSets, TLC

VARIABLES
    settings,          \* app.core.config.settings (read once from the environment)
    fallback_enabled,  \* LLMService.fallback_enabled
    pc,                \* position of the request
    req,               \* the arguments of LLMConfig.from_request
    stream,            \* chat's argument stream
    allow_fallback,    \* chat's argument allow_fallback
    config,            \* chat's argument config
    cur,               \* the config of the backend call being awaited
    tf_config,         \* _try_fallback's local variable config
    next_level,        \* _try_fallback's local variable next_level
    attempts,          \* history: the backend calls made for the request
    result,            \* what the request ended with
    out,               \* the increments a returned generator has yielded
    nlines,            \* lines read from the backend's streamed response
    frames,            \* the lines of the streamed response, when the run fixes them
    payload,           \* the system field and the chat turns _anthropic_chat made of its messages
    documents,         \* rerank's argument documents
    top_k,             \* rerank's argument top_k
    rpc,               \* position of the rerank call
    fetch,             \* the embedding requests rerank has issued: the query's, then one per document
    completed,         \* the requests that have ended, in the order they ended, when the run tracks it
    ret,               \* what rerank ended with
    messages,          \* the list the caller of ask holds, passed as messages
    rag,               \* ask's argument rag
    apc,               \* position of the ask call
    input,             \* history: the messages as they were when ask was called
    s_args,            \* search's arguments query, top_k, rerank
    results,           \* search's local variable results
    called,            \* history: the calls ask and search have made
    aret,              \* what ask ended with
    sse,               \* the events stream_response has yielded
    bpc,               \* position of stream_response
    peer               \* a second request on the same LLMService, suspended at an await

gateway_vars ==
    <<settings, fallback_enabled, pc, req, stream, allow_fallback, config,
      cur, tf_config, next_level, attempts, result, out, nlines, frames, payload>>

rerank_vars == <<documents, top_k, rpc, fetch, completed, ret>>

ask_vars == <<messages, rag, apc, input, s_args, results, called, aret>>

boundary_vars == <<sse, bpc>>

rag_vars == <<rerank_vars, ask_vars, boundary_vars>>

peer_vars == <<peer>>

vars == <<gateway_vars, rag_vars, peer_vars>>

----------------------------------------------------------------------------
(* Bounds of the model *)

\* lines a backend sends in one streamed response, at most
MaxLines == 2

----------------------------------------------------------------------------
(* Python values *)

None == "<None>"

\* Python truthiness of an Optional[str]
Truthy(x) == x # None /\ x # ""

\* x or y
Or(x, y) == IF Truthy(x) THEN x ELSE y

UpperChars == "ABCDEFGHIJKLMNOPQRSTUVWXYZ"
LowerChars == "abcdefghijklmnopqrstuvwxyz"

LowerMap ==
    [c \in {SubSeq(UpperChars, i, i) : i \in 1..26} |->
        LET i == CHOOSE j \in 1..26 : SubSeq(UpperChars, j, j) = c
        IN SubSeq(LowerChars, i, i)]

LowerChar(c) == IF c \in DOMAIN LowerMap THEN LowerMap[c] ELSE c

RECURSIVE Lower(_)
\* str.lower()
Lower(s) ==
    IF Len(s) = 0 THEN ""
    ELSE LowerChar(SubSeq(s, 1, 1)) \o Lower(SubSeq(s, 2, Len(s)))

\* sub in s
Contains(s, sub) ==
    \E i \in 1..(Len(s) - Len(sub) + 1) : SubSeq(s, i, i + Len(sub) - 1) = sub

RECURSIVE Join(_, _)
\* sep.join(names)
Join(sep, names) ==
    IF Len(names) = 0 THEN ""
    ELSE IF Len(names) = 1 THEN names[1]
    ELSE names[1] \o sep \o Join(sep, Tail(names))

----------------------------------------------------------------------------
(* app/core/config.py *)

\* the keys of PRESET_PROVIDERS, in the order of the dict
PresetOrder ==
    <<"openai", "anthropic", "deepseek", "qwen", "glm", "gemini",
      "openrouter", "siliconflow", "ollama">>

PresetNames == {PresetOrder[i] : i \in 1..Len(PresetOrder)}

PRESET_PROVIDERS ==
    [p \in PresetNames |->
        CASE p = "openai" ->
               [base_url |-> "https://api.openai.com/v1", default_model |-> "gpt-4o"]
          [] p = "anthropic" ->
               [base_url |-> "https://api.anthropic.com/v1",
                default_model |-> "claude-sonnet-4-20250514"]
          [] p = "deepseek" ->
               [base_url |-> "https://api.deepseek.com/v1",
                default_model |-> "deepseek-chat"]
          [] p = "qwen" ->
               [base_url |-> "https://dashscope.aliyuncs.com/compatible-mode/v1",
                default_model |-> "qwen-plus"]
          [] p = "glm" ->
               [base_url |-> "https://open.bigmodel.cn/api/paas/v4",
                default_model |-> "glm-4-flash"]
          [] p = "gemini" ->
               [base_url |-> "https://generativelanguage.googleapis.com/v1beta/openai",
                default_model |-> "gemini-2.0-flash"]
          [] p = "openrouter" ->
               [base_url |-> "https://openrouter.ai/api/v1",
                default_model |-> "anthropic/claude-sonnet-4"]
          [] p = "siliconflow" ->
               [base_url |-> "https://api.siliconflow.cn/v1",
                default_model |-> "Qwen/Qwen2.5-72B-Instruct"]
          [] p = "ollama" ->
               [base_url |-> "http://host.docker.internal:11434",
                default_model |-> "qwen3:8b"]]

\* the providers Settings has an *_API_KEY field for
KeyedProviders == PresetNames \ {"ollama"}

\* Settings as the class declares it: no key configured, ollama the default
DefaultSettings ==
    [DEFAULT_PROVIDER |-> "ollama", keys |-> [p \in KeyedProviders |-> ""]]

\* Settings read from an environment that sets the keys and the default provider
ConfiguredSettings ==
    [DEFAULT_PROVIDER |-> "qwen", keys |-> [p \in KeyedProviders |-> "env-" \o p]]

SettingsChoices == {DefaultSettings, ConfiguredSettings}

\* Settings.get_api_key: key_map.get(provider, "")
get_api_key(s, provider) ==
    IF provider \in KeyedProviders THEN s.keys[provider] ELSE ""

----------------------------------------------------------------------------
(* app/services/llm.py: configuration *)

FALLBACK_CHAIN == <<"glm", "ollama">>

\* FALLBACK_CHAIN[i] with Python's zero-based index i
ChainAt(i) == FALLBACK_CHAIN[i + 1]

\* LLMConfig(): the dataclass defaults
NewLLMConfig ==
    [provider |-> "", base_url |-> "", api_key |-> "", model |-> "",
     is_fallback |-> FALSE, original_provider |-> "", fallback_level |-> 0]

\* the message of ProviderNotFoundError
NotFoundMessage(provider) ==
    "Provider '" \o provider \o "' does not exist. Available: "
        \o Join(", ", PresetOrder)

\* from_request looking the preset up under the default provider's name
from_request_default_preset(s, provider, base_url, api_key, model) ==
    LET name == Or(provider, s.DEFAULT_PROVIDER) IN
    IF Truthy(base_url)
    THEN [exc |-> "none", message |-> "",
          config |-> [NewLLMConfig EXCEPT
                        !.provider = name,
                        !.base_url = base_url,
                        !.api_key = Or(api_key, ""),
                        !.model = Or(model, "custom-model")]]
    ELSE IF name \notin PresetNames
    THEN [exc |-> "ProviderNotFoundError", message |-> NotFoundMessage(name),
          config |-> [NewLLMConfig EXCEPT !.provider = name]]
    ELSE [exc |-> "none", message |-> "",
          config |-> [NewLLMConfig EXCEPT
                        !.provider = name,
                        !.base_url = PRESET_PROVIDERS[s.DEFAULT_PROVIDER].base_url,
                        !.api_key = Or(api_key, get_api_key(s, name)),
                        !.model = Or(model,
                                     PRESET_PROVIDERS[s.DEFAULT_PROVIDER].default_model)]]

\* from_request taking a request with a credential for a custom one
from_request_key_is_custom(s, provider, base_url, api_key, model) ==
    LET name == Or(provider, s.DEFAULT_PROVIDER) IN
    IF Truthy(base_url) \/ Truthy(api_key)
    THEN [exc |-> "none", message |-> "",
          config |-> [NewLLMConfig EXCEPT
                        !.provider = name,
                        !.base_url = Or(base_url, ""),
                        !.api_key = Or(api_key, ""),
                        !.model = Or(model, "custom-model")]]
    ELSE IF name \notin PresetNames
    THEN [exc |-> "ProviderNotFoundError", message |-> NotFoundMessage(name),
          config |-> [NewLLMConfig EXCEPT !.provider = name]]
    ELSE [exc |-> "none", message |-> "",
          config |-> [NewLLMConfig EXCEPT
                        !.provider = name,
                        !.base_url = PRESET_PROVIDERS[name].base_url,
                        !.api_key = Or(api_key, get_api_key(s, name)),
                        !.model = Or(model, PRESET_PROVIDERS[name].default_model)]]

\* from_request checking the provider name before it looks at the endpoint
from_request_validates_first(s, provider, base_url, api_key, model) ==
    LET name == Or(provider, s.DEFAULT_PROVIDER) IN
    IF name \notin PresetNames
    THEN [exc |-> "ProviderNotFoundError", message |-> NotFoundMessage(name),
          config |-> [NewLLMConfig EXCEPT !.provider = name]]
    ELSE IF Truthy(base_url)
    THEN [exc |-> "none", message |-> "",
          config |-> [NewLLMConfig EXCEPT
                        !.provider = name,
                        !.base_url = base_url,
                        !.api_key = Or(api_key, ""),
                        !.model = Or(model, "custom-model")]]
    ELSE [exc |-> "none", message |-> "",
          config |-> [NewLLMConfig EXCEPT
                        !.provider = name,
                        !.base_url = PRESET_PROVIDERS[name].base_url,
                        !.api_key = Or(api_key, get_api_key(s, name)),
                        !.model = Or(model, PRESET_PROVIDERS[name].default_model)]]

\* from_request building an endpoint-less config for a name it does not know
from_request_unknown_passes(s, provider, base_url, api_key, model) ==
    LET name == Or(provider, s.DEFAULT_PROVIDER) IN
    IF Truthy(base_url) \/ name \notin PresetNames
    THEN [exc |-> "none", message |-> "",
          config |-> [NewLLMConfig EXCEPT
                        !.provider = name,
                        !.base_url = Or(base_url, ""),
                        !.api_key = Or(api_key, ""),
                        !.model = Or(model, "custom-model")]]
    ELSE [exc |-> "none", message |-> "",
          config |-> [NewLLMConfig EXCEPT
                        !.provider = name,
                        !.base_url = PRESET_PROVIDERS[name].base_url,
                        !.api_key = Or(api_key, get_api_key(s, name)),
                        !.model = Or(model, PRESET_PROVIDERS[name].default_model)]]

\* LLMConfig.from_request: [exc, message, config]
from_request(s, provider, base_url, api_key, model) ==
    LET name == Or(provider, s.DEFAULT_PROVIDER) IN
    IF Truthy(base_url)
    THEN [exc |-> "none", message |-> "",
          config |-> [NewLLMConfig EXCEPT
                        !.provider = name,
                        !.base_url = base_url,
                        !.api_key = Or(api_key, ""),
                        !.model = Or(model, "custom-model")]]
    ELSE IF name \notin PresetNames
    THEN [exc |-> "ProviderNotFoundError", message |-> NotFoundMessage(name),
          config |-> [NewLLMConfig EXCEPT !.provider = name]]
    ELSE [exc |-> "none", message |-> "",
          config |-> [NewLLMConfig EXCEPT
                        !.provider = name,
                        !.base_url = PRESET_PROVIDERS[name].base_url,
                        !.api_key = Or(api_key, get_api_key(s, name)),
                        !.model = Or(model, PRESET_PROVIDERS[name].default_model)]]

\* to_fallback leaving the level of the config it is made from
to_fallback_keeps_level(s, self, level) ==
    LET lvl == IF level >= Len(FALLBACK_CHAIN) THEN Len(FALLBACK_CHAIN) - 1 ELSE level
        fallback_provider == ChainAt(lvl)
    IN [provider |-> fallback_provider,
        base_url |-> PRESET_PROVIDERS[fallback_provider].base_url,
        api_key |-> get_api_key(s, fallback_provider),
        model |-> PRESET_PROVIDERS[fallback_provider].default_model,
        is_fallback |-> TRUE,
        original_provider |-> Or(self.original_provider, self.provider),
        fallback_level |-> self.fallback_level]

\* LLMConfig.to_fallback(self, level)
to_fallback_same_entry(s, self, level) ==
    LET fallback_provider == ChainAt(0)
    IN [provider |-> fallback_provider,
        base_url |-> PRESET_PROVIDERS[fallback_provider].base_url,
        api_key |-> get_api_key(s, fallback_provider),
        model |-> PRESET_PROVIDERS[fallback_provider].default_model,
        is_fallback |-> TRUE,
        original_provider |-> Or(self.original_provider, self.provider),
        fallback_level |-> level]

to_fallback_keeps_credentials(s, self, level) ==
    LET lvl == IF level >= Len(FALLBACK_CHAIN) THEN Len(FALLBACK_CHAIN) - 1 ELSE level
        fallback_provider == ChainAt(lvl)
    IN [provider |-> fallback_provider,
        base_url |-> PRESET_PROVIDERS[fallback_provider].base_url,
        api_key |-> self.api_key,
        model |-> self.model,
        is_fallback |-> TRUE,
        original_provider |-> Or(self.original_provider, self.provider),
        fallback_level |-> lvl]

to_fallback(s, self, level) ==
    LET lvl == IF level >= Len(FALLBACK_CHAIN) THEN Len(FALLBACK_CHAIN) - 1 ELSE level
        fallback_provider == ChainAt(lvl)
    IN [provider |-> fallback_provider,
        base_url |-> PRESET_PROVIDERS[fallback_provider].base_url,
        api_key |-> get_api_key(s, fallback_provider),
        model |-> PRESET_PROVIDERS[fallback_provider].default_model,
        is_fallback |-> TRUE,
        original_provider |-> Or(self.original_provider, self.provider),
        fallback_level |-> lvl]

----------------------------------------------------------------------------
(* app/services/llm.py: errors *)

FALLBACK_ERRORS ==
    {"ConnectError", "ConnectTimeout", "ReadTimeout", "WriteTimeout", "PoolTimeout"}

\* the status codes with 404 among them
FALLBACK_STATUS_CODES_with_404 == {404, 429, 500, 502, 503, 504}

FALLBACK_STATUS_CODES == {429, 500, 502, 503, 504}

\* transport exceptions of httpx: the five above and one that is none of them
NetworkErrors == FALLBACK_ERRORS \cup {"ReadError"}

\* the error statuses a backend answers with
ErrorStatuses == {400, 401, 404} \cup FALLBACK_STATUS_CODES

\* what a backend does with one request: a transport error, or a response
BackendResponses ==
    {[net |-> e, status |-> 0, body |-> "none"] : e \in NetworkErrors}
        \cup {[net |-> "none", status |-> 200, body |-> b] : b \in {"answer", "malformed"}}
        \cup {[net |-> "none", status |-> c, body |-> "error"] : c \in ErrorStatuses}

\* what an awaited call ends with
Return(content) == [exc |-> "none", status |-> 200, content |-> content]
Raise(exc, status) == [exc |-> exc, status |-> status, content |-> ""]

----------------------------------------------------------------------------
(* The arguments of a request *)

\* every argument from_request is checked on
AllProviders == PresetNames \cup {None, "", "mystery"}
AllBaseUrls ==
    {None, "", "https://custom/v1", "http://My-Ollama:11434",
     "https://Anthropic.proxy/v1"}
AllApiKeys == {None, "", "sk-user"}
AllModels == {None, "", "my-model"}

\* the arguments of the requests that are followed through chat
ReqProviders == {None, "openai", "anthropic", "glm", "ollama", "mystery"}
ReqBaseUrls == {None, "https://custom/v1", "http://My-Ollama:11434"}
ReqApiKeys == {None, "sk-user"}
ReqModels == {None, "my-model"}

----------------------------------------------------------------------------
(* app/services/llm.py: the protocol adapters *)

\* the line an adapter puts before the content of a fallback config
Disclosure(cfg) ==
    "[using local model " \o cfg.model \o ", original service "
        \o cfg.original_provider \o " temporarily unavailable]\n\n"

\* A unary adapter: post (a transport error is raised), raise_for_status,
\* read the content out of the JSON body (a body without the keys raises
\* KeyError), prefix the content for a fallback config.

\* _openai_chat with stream false
_openai_chat(cfg, resp) ==
    IF resp.net # "none" THEN Raise(resp.net, 0)
    ELSE IF resp.status >= 400 THEN Raise("HTTPStatusError", resp.status)
    ELSE IF resp.body = "malformed" THEN Raise("KeyError", resp.status)
    ELSE Return(IF cfg.is_fallback THEN Disclosure(cfg) \o resp.body ELSE resp.body)

\* _anthropic_chat with stream false
_anthropic_chat(cfg, resp) ==
    IF resp.net # "none" THEN Raise(resp.net, 0)
    ELSE IF resp.status >= 400 THEN Raise("HTTPStatusError", resp.status)
    ELSE IF resp.body = "malformed" THEN Raise("KeyError", resp.status)
    ELSE Return(IF cfg.is_fallback THEN Disclosure(cfg) \o resp.body ELSE resp.body)

\* _ollama_chat with stream false
_ollama_chat(cfg, resp) ==
    IF resp.net # "none" THEN Raise(resp.net, 0)
    ELSE IF resp.status >= 400 THEN Raise("HTTPStatusError", resp.status)
    ELSE IF resp.body = "malformed" THEN Raise("KeyError", resp.status)
    ELSE Return(IF cfg.is_fallback THEN Disclosure(cfg) \o resp.body ELSE resp.body)

\* the endpoints a config of the model can have
Endpoints ==
    {PRESET_PROVIDERS[p].base_url : p \in PresetNames} \cup (AllBaseUrls \ {None})

\* name in config.base_url.lower(), tabulated once over the endpoints
Mentions ==
    [u \in Endpoints |-> [name \in {"ollama", "anthropic"} |->
                             Contains(Lower(u), name)]]

\* _call_llm with its second test made first
Adapter_anthropic_first(cfg) ==
    IF cfg.provider = "anthropic" \/ Mentions[cfg.base_url]["anthropic"]
    THEN "anthropic"
    ELSE IF cfg.provider = "ollama" \/ Mentions[cfg.base_url]["ollama"]
    THEN "ollama"
    ELSE "openai"

\* _call_llm: the adapter a config is dispatched to
Adapter(cfg) ==
    IF cfg.provider = "ollama" \/ Mentions[cfg.base_url]["ollama"]
    THEN "ollama"
    ELSE IF cfg.provider = "anthropic" \/ Mentions[cfg.base_url]["anthropic"]
    THEN "anthropic"
    ELSE "openai"

\* _call_llm with stream false
_call_llm(cfg, resp) ==
    CASE Adapter(cfg) = "ollama" -> _ollama_chat(cfg, resp)
      [] Adapter(cfg) = "anthropic" -> _anthropic_chat(cfg, resp)
      [] OTHER -> _openai_chat(cfg, resp)

\* _openai_stream: what the generator yields before it opens its connection
_openai_stream_head(cfg) == IF cfg.is_fallback THEN <<Disclosure(cfg)>> ELSE <<>>

\* _anthropic_stream without its first yield
_anthropic_stream_head_silent(cfg) == <<>>

\* _anthropic_stream: what the generator yields before it opens its connection
_anthropic_stream_head(cfg) == IF cfg.is_fallback THEN <<Disclosure(cfg)>> ELSE <<>>

\* _ollama_stream: what the generator yields before it opens its connection
_ollama_stream_head(cfg) == IF cfg.is_fallback THEN <<Disclosure(cfg)>> ELSE <<>>

\* the generator _call_llm returns with stream true, before the connection
StreamHead(cfg) ==
    CASE Adapter(cfg) = "ollama" -> _ollama_stream_head(cfg)
      [] Adapter(cfg) = "anthropic" -> _anthropic_stream_head(cfg)
      [] OTHER -> _openai_stream_head(cfg)

\* The lines of a streamed response.  data: the line starts with "data: ";
\* json: what follows parses as a JSON object; shape: whose frame it is;
\* text: the increment it carries.
Texts == {"a", "b"}

Lines ==
    {[data |-> TRUE, json |-> FALSE, shape |-> "[DONE]", text |-> ""],
     [data |-> FALSE, json |-> FALSE, shape |-> "", text |-> ""],
     [data |-> FALSE, json |-> FALSE, shape |-> "event: ping", text |-> ""],
     [data |-> TRUE, json |-> TRUE, shape |-> "empty_delta", text |-> ""]}
        \cup {[data |-> TRUE, json |-> TRUE, shape |-> "openai_delta", text |-> t] :
                t \in Texts}
        \cup {[data |-> TRUE, json |-> TRUE, shape |-> "content_block_delta", text |-> t] :
                t \in Texts}
        \cup {[data |-> FALSE, json |-> TRUE, shape |-> "ollama_message", text |-> t] :
                t \in Texts}

Yield(text) == [do |-> "yield", text |-> text]
Skip == [do |-> "continue", text |-> ""]
Break == [do |-> "break", text |-> ""]
Throw(exc) == [do |-> "raise", text |-> exc]

\* frames a backend can send besides Lines: a delta whose content is null, and
\* an object whose choices list is empty
NullContent == [data |-> TRUE, json |-> TRUE, shape |-> "openai_delta", text |-> None]
EmptyChoices == [data |-> TRUE, json |-> TRUE, shape |-> "empty_choices", text |-> ""]
BackendLines == Lines \cup {NullContent, EmptyChoices}

\* one iteration of _openai_stream's loop over response.aiter_lines()
_openai_stream_line(line) ==
    IF ~line.data THEN Skip
    ELSE IF line.shape = "[DONE]" THEN Break
    ELSE IF ~line.json THEN Skip
    ELSE IF line.shape = "empty_choices" THEN Throw("IndexError")
    ELSE IF line.shape = "openai_delta" THEN Yield(line.text)
    ELSE Skip

\* one iteration of _anthropic_stream's loop
_anthropic_stream_line(line) ==
    IF ~line.data THEN Skip
    ELSE IF ~line.json THEN Skip
    ELSE IF line.shape = "content_block_delta" THEN Yield(line.text)
    ELSE Skip

\* one iteration of _ollama_stream's loop: the whole line is parsed
_ollama_stream_line(line) ==
    IF line.shape = "" THEN Skip
    ELSE IF line.data \/ ~line.json THEN Skip
    ELSE IF line.shape = "ollama_message" THEN Yield(line.text)
    ELSE Skip

StreamLineStep(cfg, line) ==
    CASE Adapter(cfg) = "ollama" -> _ollama_stream_line(line)
      [] Adapter(cfg) = "anthropic" -> _anthropic_stream_line(line)
      [] OTHER -> _openai_stream_line(line)

\* _anthropic_chat's loop over messages, with system_content and chat_messages
\* as they are before the iteration for Head(msgs)
RECURSIVE anthropic_split(_, _, _)
anthropic_split(msgs, system_content, chat_messages) ==
    IF msgs = <<>>
    THEN [system_content |-> system_content, chat_messages |-> chat_messages]
    ELSE IF Head(msgs).role = "system"
    THEN anthropic_split(Tail(msgs), Head(msgs).content, chat_messages)
    ELSE anthropic_split(Tail(msgs), system_content, Append(chat_messages, Head(msgs)))

\* the request body: "system" is set when system_content is not empty (None:
\* the body has no such key)
anthropic_payload(msgs) ==
    LET split == anthropic_split(msgs, "", <<>>) IN
    [system |-> IF split.system_content # "" THEN split.system_content ELSE None,
     messages |-> split.chat_messages]

----------------------------------------------------------------------------
(* The request *)

\* no rerank call is under way
NoReturn == [exc |-> "none", returned |-> FALSE, value |-> <<>>]

RerankIdle ==
    /\ documents = <<>>
    /\ top_k = 0
    /\ rpc = "idle"
    /\ fetch = <<>>
    /\ completed = <<>>
    /\ ret = NoReturn

\* no call has been made
NoCalls ==
    [search |-> <<>>, embed |-> <<>>, store |-> <<>>, rerank |-> <<>>, chat |-> <<>>,
     failed |-> <<>>]

NoSearch == [query |-> "", top_k |-> 0, rerank |-> FALSE]

NoOutcome == [kind |-> "none", exc |-> "none"]

\* no ask call is under way
AskIdle ==
    /\ messages = <<>>
    /\ rag = FALSE
    /\ apc = "idle"
    /\ input = <<>>
    /\ s_args = NoSearch
    /\ results = <<>>
    /\ called = NoCalls
    /\ aret = NoOutcome

\* stream_response has not been called
BoundaryIdle ==
    /\ sse = <<>>
    /\ bpc = "idle"

\* _anthropic_chat has not been called
NoPayload == [system |-> None, messages |-> <<>>]

\* no second request
NoPeer == [id |-> "none"]

\* no request has been resolved
NoRequest == [provider |-> None, base_url |-> None, api_key |-> None, model |-> None]
NoResult == [kind |-> "none", exc |-> "none", status |-> 0, content |-> ""]

\* the entry of the history for a backend call of cfg that ended with r
Attempt(cfg, isStream, r) ==
    [config |-> cfg, adapter |-> Adapter(cfg), stream |-> isStream,
     exc |-> r.exc, status |-> r.status]

Init ==
    /\ settings \in SettingsChoices
    /\ fallback_enabled = TRUE
    /\ pc = "idle"
    /\ req = NoRequest
    /\ stream = FALSE
    /\ allow_fallback = TRUE
    /\ config = NewLLMConfig
    /\ cur = NewLLMConfig
    /\ tf_config = NewLLMConfig
    /\ next_level = 0
    /\ attempts = <<>>
    /\ result = NoResult
    /\ out = <<>>
    /\ nlines = 0
    /\ frames = <<>>
    /\ payload = NoPayload
    /\ peer = NoPeer
    /\ RerankIdle
    /\ BoundaryIdle
    /\ AskIdle

\* chat_completions builds the config with LLMConfig.from_request and calls
\* chat with it (through ask), or answers 400 for ProviderNotFoundError
ResolveFrom(providers, base_urls, api_keys, models) ==
    /\ pc = "idle"
    /\ \E provider \in providers, base_url \in base_urls,
          api_key \in api_keys, model \in models :
         LET r == from_request(settings, provider, base_url, api_key, model) IN
         /\ req' = [provider |-> provider, base_url |-> base_url,
                    api_key |-> api_key, model |-> model]
         /\ config' = r.config
         /\ cur' = r.config
         /\ IF r.exc = "none"
            THEN pc' = "chat" /\ result' = result
            ELSE /\ pc' = "done"
                 /\ result' = [kind |-> "raise", exc |-> r.exc, status |-> 0,
                               content |-> r.message]
    /\ stream' \in BOOLEAN
    /\ allow_fallback' \in BOOLEAN
    /\ UNCHANGED rag_vars
    /\ UNCHANGED peer_vars
    /\ UNCHANGED <<frames, payload>>
    /\ UNCHANGED <<settings, fallback_enabled, tf_config, next_level, attempts,
                   out, nlines>>

\* a request that is followed through chat
Resolve == ResolveFrom(ReqProviders, ReqBaseUrls, ReqApiKeys, ReqModels)

\* a request that is resolved, over every argument
ResolveAll == ResolveFrom(AllProviders, AllBaseUrls, AllApiKeys, AllModels)

\* chat or _try_fallback returns what _call_llm returned
Returns(r) ==
    /\ pc' = "done"
    /\ result' = [kind |-> "text", exc |-> "none", status |-> r.status,
                  content |-> r.content]

\* an exception leaves chat
Raises(exc, status) ==
    /\ pc' = "done"
    /\ result' = [kind |-> "raise", exc |-> exc, status |-> status, content |-> ""]

\* with stream true _call_llm returns the adapter's generator: no request is sent
ReturnsGenerator ==
    /\ pc' = "stream"
    /\ result' = [kind |-> "generator", exc |-> "none", status |-> 0, content |-> ""]

\* the head of _try_fallback's while loop, with config = cfg and next_level = lvl
LoopHead(cfg, lvl) ==
    /\ tf_config' = cfg
    /\ next_level' = lvl
    /\ IF lvl <= Len(FALLBACK_CHAIN)
       THEN /\ cur' = to_fallback(settings, cfg, lvl)
            /\ pc' = "fallback"
            /\ result' = result
       ELSE /\ cur' = cur
            /\ Raises("LLMServiceDegraded", 0)

\* the test for the last level against the name "local"
IsLastLevel_local(cfg) == cfg.provider = "local"

\* the test before _try_fallback without chat's argument
FallbackAllowed_ignores_argument == fallback_enabled

\* chat's test for the last level: config.provider == "ollama"
IsLastLevel(cfg) == cfg.provider = "ollama"

\* chat's test before it calls _try_fallback
FallbackAllowed == allow_fallback /\ fallback_enabled

\* chat, config.provider == "ollama": return await self._call_llm(...)
ChatDirectFrom(responses) ==
    /\ pc = "chat"
    /\ IsLastLevel(config)
    /\ IF stream
       THEN ReturnsGenerator /\ attempts' = attempts
       ELSE \E resp \in responses :
              LET r == _call_llm(config, resp) IN
              /\ attempts' = Append(attempts, Attempt(config, FALSE, r))
              /\ IF r.exc = "none" THEN Returns(r) ELSE Raises(r.exc, r.status)
    /\ UNCHANGED rag_vars
    /\ UNCHANGED peer_vars
    /\ UNCHANGED <<frames, payload>>
    /\ UNCHANGED <<settings, fallback_enabled, req, stream, allow_fallback, config,
                   cur, tf_config, next_level, out, nlines>>

\* chat, any other provider: the try statement around _call_llm
ChatTryFrom(responses) ==
    /\ pc = "chat"
    /\ ~IsLastLevel(config)
    /\ IF stream
       THEN /\ ReturnsGenerator
            /\ UNCHANGED <<attempts, cur, tf_config, next_level>>
       ELSE \E resp \in responses :
              LET r == _call_llm(config, resp) IN
              /\ attempts' = Append(attempts, Attempt(config, FALSE, r))
              /\ IF r.exc = "none"
                 THEN Returns(r) /\ UNCHANGED <<cur, tf_config, next_level>>
                 ELSE IF r.exc \in FALLBACK_ERRORS
                 THEN IF FallbackAllowed
                      THEN LoopHead(config, config.fallback_level + 1)
                      ELSE Raises(r.exc, r.status)
                             /\ UNCHANGED <<cur, tf_config, next_level>>
                 ELSE IF r.exc = "HTTPStatusError"
                 THEN IF FallbackAllowed /\ r.status \in FALLBACK_STATUS_CODES
                      THEN LoopHead(config, config.fallback_level + 1)
                      ELSE Raises(r.exc, r.status)
                             /\ UNCHANGED <<cur, tf_config, next_level>>
                 ELSE Raises(r.exc, r.status)
                        /\ UNCHANGED <<cur, tf_config, next_level>>
    /\ UNCHANGED rag_vars
    /\ UNCHANGED peer_vars
    /\ UNCHANGED <<frames, payload>>
    /\ UNCHANGED <<settings, fallback_enabled, req, stream, allow_fallback, config,
                   out, nlines>>

\* _try_fallback: the awaited call of one iteration of the loop, and what
\* follows it up to the next awaited call
TryFallbackFrom(responses) ==
    /\ pc = "fallback"
    /\ IF stream
       THEN /\ ReturnsGenerator
            /\ UNCHANGED <<attempts, cur, tf_config, next_level>>
       ELSE \E resp \in responses :
              LET r == _call_llm(cur, resp) IN
              /\ attempts' = Append(attempts, Attempt(cur, FALSE, r))
              /\ IF r.exc = "none"
                 THEN Returns(r) /\ UNCHANGED <<cur, tf_config, next_level>>
                 ELSE IF r.exc = "HTTPStatusError" \/ r.exc \in FALLBACK_ERRORS
                 THEN IF r.exc = "HTTPStatusError"
                            /\ r.status \notin FALLBACK_STATUS_CODES
                      THEN Raises(r.exc, r.status)
                             /\ UNCHANGED <<cur, tf_config, next_level>>
                      ELSE IF cur.provider = "ollama"
                      THEN /\ Raises(r.exc, r.status)
                           /\ tf_config' = cur
                           /\ next_level' = next_level + 1
                           /\ cur' = cur
                      ELSE LoopHead(cur, next_level + 1)
                 ELSE Raises(r.exc, r.status)
                        /\ UNCHANGED <<cur, tf_config, next_level>>
    /\ UNCHANGED rag_vars
    /\ UNCHANGED peer_vars
    /\ UNCHANGED <<frames, payload>>
    /\ UNCHANGED <<settings, fallback_enabled, req, stream, allow_fallback, config,
                   out, nlines>>

\* chat and _try_fallback with a backend that answers with any of BackendResponses
ChatDirect == ChatDirectFrom(BackendResponses)
ChatTry == ChatTryFrom(BackendResponses)
TryFallback == TryFallbackFrom(BackendResponses)

\* the consumer starts the generator: the prologue is yielded, then the
\* request is sent; a transport error leaves the generator
StreamOpenFrom(responses) ==
    /\ pc = "stream"
    /\ out' = StreamHead(cur)
    /\ \E resp \in responses :
         /\ resp.body # "malformed"
         /\ IF resp.net # "none"
            THEN /\ attempts' = Append(attempts, Attempt(cur, TRUE, Raise(resp.net, 0)))
                 /\ pc' = "done"
                 /\ result' = [kind |-> "gen_raise", exc |-> resp.net, status |-> 0,
                               content |-> ""]
            ELSE /\ attempts' = Append(attempts,
                                       Attempt(cur, TRUE, [exc |-> "none",
                                                           status |-> resp.status]))
                 /\ pc' = "lines"
                 /\ result' = result
    /\ UNCHANGED rag_vars
    /\ UNCHANGED peer_vars
    /\ UNCHANGED <<frames, payload>>
    /\ UNCHANGED <<settings, fallback_enabled, req, stream, allow_fallback, config,
                   cur, tf_config, next_level, nlines>>

\* the response is any of BackendResponses
StreamOpen == StreamOpenFrom(BackendResponses)

\* the generator reads one more line of the response, one of next_lines, or
\* the read fails; an exception the loop does not catch leaves the generator
StreamLineFrom(next_lines) ==
    /\ pc = "lines"
    /\ nlines < MaxLines
    /\ \/ \E line \in next_lines :
            LET step == StreamLineStep(cur, line) IN
            /\ nlines' = nlines + 1
            /\ out' = IF step.do = "yield" THEN Append(out, step.text) ELSE out
            /\ IF step.do = "break"
               THEN /\ pc' = "done"
                    /\ result' = [result EXCEPT !.kind = "exhausted"]
                    /\ attempts' = attempts
               ELSE IF step.do = "raise"
               THEN /\ pc' = "done"
                    /\ result' = [kind |-> "gen_raise", exc |-> step.text,
                                  status |-> 0, content |-> ""]
                    /\ attempts' = [attempts EXCEPT ![Len(attempts)].exc = step.text]
               ELSE pc' = pc /\ result' = result /\ attempts' = attempts
       \/ \E e \in NetworkErrors :
            /\ nlines' = nlines
            /\ out' = out
            /\ pc' = "done"
            /\ result' = [kind |-> "gen_raise", exc |-> e, status |-> 0, content |-> ""]
            /\ attempts' = [attempts EXCEPT ![Len(attempts)].exc = e]
    /\ UNCHANGED rag_vars
    /\ UNCHANGED peer_vars
    /\ UNCHANGED <<frames, payload>>
    /\ UNCHANGED <<settings, fallback_enabled, req, stream, allow_fallback, config,
                   cur, tf_config, next_level>>

\* a response of any lines
StreamLine == StreamLineFrom(Lines)

\* the response whose lines are frames: the next line is frames[nlines + 1]
StreamLineOfFrames ==
    /\ nlines < Len(frames)
    /\ StreamLineFrom({frames[nlines + 1]})

\* the response has no more lines: the generator is exhausted
StreamEndWhen(no_more_lines) ==
    /\ no_more_lines
    /\ pc = "lines"
    /\ pc' = "done"
    /\ result' = [result EXCEPT !.kind = "exhausted"]
    /\ UNCHANGED rag_vars
    /\ UNCHANGED peer_vars
    /\ UNCHANGED <<frames, payload>>
    /\ UNCHANGED <<settings, fallback_enabled, req, stream, allow_fallback, config,
                   cur, tf_config, next_level, attempts, out, nlines>>

\* a response of any lines ends anywhere
StreamEnd == StreamEndWhen(TRUE)

\* the response whose lines are frames ends behind the last of them
StreamEndOfFrames == StreamEndWhen(nlines = Len(frames))

Next ==
    \/ Resolve
    \/ ChatDirect
    \/ ChatTry
    \/ TryFallback
    \/ StreamOpen
    \/ StreamLine
    \/ StreamEnd

Spec == Init /\ [][Next]_vars

\* resolution alone, over every argument
NextResolve == ResolveAll

SpecResolve == Init /\ [][NextResolve]_vars

\* chat called with a config of any shape the dataclass admits: one of a preset
\* provider, as resolved or as a fallback of level 1 made for the provider qwen
ChatConfigs ==
    {[provider |-> p,
      base_url |-> PRESET_PROVIDERS[p].base_url,
      api_key |-> "",
      model |-> PRESET_PROVIDERS[p].default_model,
      is_fallback |-> f,
      original_provider |-> IF f THEN "qwen" ELSE "",
      fallback_level |-> IF f THEN 1 ELSE 0] :
        p \in {"openai", "anthropic", "glm", "ollama"}, f \in BOOLEAN}

InitChat ==
    /\ settings \in SettingsChoices
    /\ fallback_enabled = TRUE
    /\ pc = "chat"
    /\ req = NoRequest
    /\ stream \in BOOLEAN
    /\ allow_fallback \in BOOLEAN
    /\ config \in ChatConfigs
    /\ cur = config
    /\ tf_config = NewLLMConfig
    /\ next_level = 0
    /\ attempts = <<>>
    /\ result = NoResult
    /\ out = <<>>
    /\ nlines = 0
    /\ frames = <<>>
    /\ payload = NoPayload
    /\ peer = NoPeer
    /\ RerankIdle
    /\ BoundaryIdle
    /\ AskIdle

NextChat ==
    \/ ChatDirect
    \/ ChatTry
    \/ TryFallback
    \/ StreamOpen
    \/ StreamLine
    \/ StreamEnd

SpecChat == InitChat /\ [][NextChat]_vars

\* chat under the assumption that every backend call it awaits ends: a step of
\* chat or of _try_fallback that is enabled is eventually taken
ChatStep == ChatDirect \/ ChatTry \/ TryFallback

SpecChatFair == InitChat /\ [][NextChat]_vars /\ WF_vars(ChatStep)

\* One streamed response followed to its end.  The generator _call_llm
\* returned for cur is consumed; the lines the backend sends are frames.
StreamConfigs ==
    {c \in ChatConfigs : c.provider \in {"openai", "anthropic", "ollama"} /\ ~c.is_fallback}
        \cup {c \in ChatConfigs : c.provider = "glm" /\ c.is_fallback}

StreamResponses ==
    {r \in BackendResponses :
       /\ r.net \in {"none", "ConnectError"}
       /\ r.status \in {0, 200, 503}}

FrameLists == UNION {[1..n -> BackendLines] : n \in 0..MaxLines}

InitStream ==
    /\ settings = DefaultSettings
    /\ fallback_enabled = TRUE
    /\ pc = "stream"
    /\ req = NoRequest
    /\ stream = TRUE
    /\ allow_fallback = TRUE
    /\ config \in StreamConfigs
    /\ cur = config
    /\ tf_config = NewLLMConfig
    /\ next_level = 0
    /\ attempts = <<>>
    /\ result = [NoResult EXCEPT !.kind = "generator"]
    /\ out = <<>>
    /\ nlines = 0
    /\ frames \in FrameLists
    /\ payload = NoPayload
    /\ peer = NoPeer
    /\ RerankIdle
    /\ BoundaryIdle
    /\ AskIdle

\* the response the generator receives
StreamOpenSome == StreamOpenFrom(StreamResponses)

NextStream ==
    \/ StreamOpenSome
    \/ StreamLineOfFrames
    \/ StreamEndOfFrames

SpecStream == InitStream /\ [][NextStream]_vars

\* the generator is inside `async with client.stream(...) as response`, itself
\* inside `async with httpx.AsyncClient(...) as client`: it holds the
\* connection and the client, and every way out of the blocks releases them
ConnectionHeld == pc = "lines"

\* a consumer that goes away while the generator goes on reading
StreamAbandon_keeps_reading ==
    /\ pc \in {"stream", "lines"}
    /\ result.kind = "generator"
    /\ result' = [result EXCEPT !.kind = "closed"]
    /\ UNCHANGED rag_vars
    /\ UNCHANGED peer_vars
    /\ UNCHANGED <<settings, fallback_enabled, pc, req, stream, allow_fallback, config,
                   cur, tf_config, next_level, attempts, out, nlines, frames, payload>>

\* the consumer abandons the generator before it is exhausted: the generator
\* is closed (aclose, or the event loop's finalizer), GeneratorExit is raised
\* at the yield it is suspended at and leaves the two async with blocks; a
\* generator that was never started only ends
StreamAbandon ==
    /\ pc \in {"stream", "lines"}
    /\ result.kind = "generator"
    /\ pc' = "done"
    /\ result' = [result EXCEPT !.kind = "closed"]
    /\ UNCHANGED rag_vars
    /\ UNCHANGED peer_vars
    /\ UNCHANGED <<settings, fallback_enabled, req, stream, allow_fallback, config,
                   cur, tf_config, next_level, attempts, out, nlines, frames, payload>>

NextAbandon ==
    \/ StreamOpenSome
    \/ StreamLineOfFrames
    \/ StreamEndOfFrames
    \/ StreamAbandon

SpecAbandon == InitStream /\ [][NextAbandon]_vars

----------------------------------------------------------------------------
(* Two requests on the one LLMService *)

\* The arguments and local variables of chat and _try_fallback for the request
\* that is running; the other request's are in peer.  What the requests
\* share, the attribute fallback_enabled, the settings and the module's
\* tables, is in neither.
Request(id) ==
    [id |-> id, pc |-> pc, stream |-> stream, allow_fallback |-> allow_fallback,
     config |-> config, cur |-> cur, tf_config |-> tf_config,
     next_level |-> next_level, attempts |-> attempts, result |-> result]

OtherId(id) == IF id = "A" THEN "B" ELSE "A"

\* the event loop suspends the running request at its await and resumes the
\* request r
SwitchTo(r) ==
    /\ peer.id # "none"
    /\ peer.pc \notin {"done", "stream"}
    /\ peer' = Request(OtherId(peer.id))
    /\ pc' = r.pc
    /\ stream' = r.stream
    /\ allow_fallback' = r.allow_fallback
    /\ config' = r.config
    /\ cur' = r.cur
    /\ tf_config' = r.tf_config
    /\ next_level' = r.next_level
    /\ attempts' = r.attempts
    /\ result' = r.result
    /\ UNCHANGED rag_vars
    /\ UNCHANGED <<settings, fallback_enabled, req, out, nlines, frames, payload>>

\* the fallback config kept in one place for all requests
Switch_keeps_cur == SwitchTo([peer EXCEPT !.cur = cur])

\* every argument and local variable belongs to its own call
Switch == SwitchTo(peer)

TwoConfigs ==
    {c \in ChatConfigs : ~c.is_fallback /\ c.provider \in {"openai", "anthropic", "ollama"}}

TwoResponses ==
    {r \in BackendResponses :
       /\ r.net \in {"none", "ConnectError"}
       /\ r.status \in {0, 200, 401, 503}
       /\ r.body # "malformed"}

InitTwo ==
    /\ settings = DefaultSettings
    /\ fallback_enabled = TRUE
    /\ pc = "chat"
    /\ req = NoRequest
    /\ stream = FALSE
    /\ allow_fallback \in BOOLEAN
    /\ config \in TwoConfigs
    /\ cur = config
    /\ tf_config = NewLLMConfig
    /\ next_level = 0
    /\ attempts = <<>>
    /\ result = NoResult
    /\ out = <<>>
    /\ nlines = 0
    /\ frames = <<>>
    /\ payload = NoPayload
    /\ \E c \in TwoConfigs, a \in BOOLEAN :
          peer = [id |-> "B", pc |-> "chat", stream |-> FALSE, allow_fallback |-> a,
                  config |-> c, cur |-> c, tf_config |-> NewLLMConfig,
                  next_level |-> 0, attempts |-> <<>>, result |-> NoResult]
    /\ RerankIdle
    /\ BoundaryIdle
    /\ AskIdle

ChatDirectSome == ChatDirectFrom(TwoResponses)
ChatTrySome == ChatTryFrom(TwoResponses)
TryFallbackSome == TryFallbackFrom(TwoResponses)

NextTwo ==
    \/ ChatDirectSome
    \/ ChatTrySome
    \/ TryFallbackSome
    \/ Switch

SpecTwo == InitTwo /\ [][NextTwo]_vars

----------------------------------------------------------------------------
(* app/services/reranker.py *)

\* documents a rerank call is given, at most
MaxDocs == 3

\* A float is its value in thousandths: 1.0 is One
One == 1000

\* the weights of combined_score, in tenths: original_score * 0.3 + similarity * 0.7
ORIGINAL_WEIGHT == 3
SIMILARITY_WEIGHT == 7

\* doc.get("score", 0.5)
DEFAULT_ORIGINAL_SCORE == 500

\* Settings.RERANK_TOP_K
RERANK_TOP_K == 5

\* dict.get(key, default)
Get(d, key, default) == IF key \in DOMAIN d THEN d[key] ELSE default

\* a slice that keeps the whole list
Slice_keeps_all(seq, k) == seq

\* seq[:k]
Slice(seq, k) ==
    IF k >= 0
    THEN SubSeq(seq, 1, IF k < Len(seq) THEN k ELSE Len(seq))
    ELSE SubSeq(seq, 1, IF Len(seq) + k > 0 THEN Len(seq) + k ELSE 0)

\* The value of response.json()["embedding"]: a list, of numbers unless the
\* backend sent something else
EmptyList == [numeric |-> TRUE, items |-> <<>>]
Vector(v) == [numeric |-> TRUE, items |-> v]
Malformed == [numeric |-> FALSE, items |-> <<0>>]

\* the truth value of a list
ListTruthy(e) == Len(e.items) > 0

\* _get_embedding: an embedding request not yet answered, one that raised
\* (connection, timeout, raise_for_status, KeyError), one that returned a list
Pending == [state |-> "pending", embedding |-> EmptyList]
Raised == [state |-> "raised", embedding |-> EmptyList]
Fetched(e) == [state |-> "returned", embedding |-> e]

\* what the embedding backend can answer for the query and for a document
QueryOutcomes ==
    {Raised, Fetched(EmptyList), Fetched(Vector(<<3, 4>>)), Fetched(Vector(<<0, 0>>))}

DocOutcomes ==
    {Raised, Fetched(Vector(<<3, 4>>)), Fetched(Vector(<<4, 3>>)), Fetched(Malformed)}

\* sum(a * b for a, b in zip(vec1, vec2)) over the first n pairs
RECURSIVE SumProducts(_, _, _)

SumProducts(a, b, n) ==
    IF n = 0 THEN 0 ELSE a[n] * b[n] + SumProducts(a, b, n - 1)

\* math.sqrt, on the squares the vectors of the model have
Sqrt(x) == CHOOSE r \in 0..x : r * r = x

\* RerankerService._cosine_similarity: [exc, value]
_cosine_similarity(vec1, vec2) ==
    IF ~vec1.numeric \/ ~vec2.numeric
    THEN [exc |-> "TypeError", value |-> 0]
    ELSE LET n == IF Len(vec1.items) < Len(vec2.items)
                  THEN Len(vec1.items) ELSE Len(vec2.items)
             dot_product == SumProducts(vec1.items, vec2.items, n)
             norm1 == Sqrt(SumProducts(vec1.items, vec1.items, Len(vec1.items)))
             norm2 == Sqrt(SumProducts(vec2.items, vec2.items, Len(vec2.items)))
         IN  IF norm1 = 0 \/ norm2 = 0
             THEN [exc |-> "none", value |-> 0]
             ELSE [exc |-> "none", value |-> (One * dot_product) \div (norm1 * norm2)]

\* _get_doc_embedding letting the exception of its request through to gather
_get_doc_embedding_raises(idx, doc, outcome) ==
    [exc |-> outcome.state = "raised", idx |-> idx,
     embedding |-> outcome.embedding, doc |-> doc]

\* RerankerService._get_doc_embedding: (idx, embedding, doc), with [] for the
\* embedding when the request raised; exc tells that gather got an exception
_get_doc_embedding(idx, doc, outcome) ==
    [exc |-> FALSE, idx |-> idx,
     embedding |-> IF outcome.state = "raised" THEN EmptyList ELSE outcome.embedding,
     doc |-> doc]

\* query_embedding taken from a failed request as a zero vector
query_embedding_zero_on_failure(outcome) ==
    IF outcome.state = "raised" THEN Vector(<<0, 0>>) ELSE outcome.embedding

\* rerank: query_embedding = results[0] if not isinstance(results[0], Exception) else []
query_embedding_of(outcome) ==
    IF outcome.state = "raised" THEN EmptyList ELSE outcome.embedding

\* combined_score with the two weights exchanged
combined_score_swapped(original_score, similarity) ==
    (SIMILARITY_WEIGHT * original_score + ORIGINAL_WEIGHT * similarity) \div 10

\* rerank: combined_score = original_score * 0.3 + similarity * 0.7
combined_score(original_score, similarity) ==
    (ORIGINAL_WEIGHT * original_score + SIMILARITY_WEIGHT * similarity) \div 10

\* rerank: the body of the loop over results[1:] for one result that is no
\* exception: [exc, value], value being the record appended to scored_docs
ScoreOne_rebuilds_record(query_embedding, r) ==
    LET cos == IF ListTruthy(r.embedding)
               THEN _cosine_similarity(query_embedding, r.embedding)
               ELSE [exc |-> "none", value |-> 0]
        similarity == cos.value
        combined == IF ListTruthy(r.embedding)
                    THEN combined_score(Get(r.doc, "score", DEFAULT_ORIGINAL_SCORE),
                                        similarity)
                    ELSE Get(r.doc, "score", 0)
    IN  [exc |-> cos.exc,
         value |-> [id |-> r.doc.id,
                    content |-> r.doc.content,
                    metadata |-> [title |-> ""],
                    original_score |-> Get(r.doc, "score", 0),
                    rerank_score |-> similarity,
                    score |-> combined]]

ScoreOne(query_embedding, r) ==
    LET cos == IF ListTruthy(r.embedding)
               THEN _cosine_similarity(query_embedding, r.embedding)
               ELSE [exc |-> "none", value |-> 0]
        similarity == cos.value
        combined == IF ListTruthy(r.embedding)
                    THEN combined_score(Get(r.doc, "score", DEFAULT_ORIGINAL_SCORE),
                                        similarity)
                    ELSE Get(r.doc, "score", 0)
    IN  [exc |-> cos.exc,
         value |-> [original_score |-> Get(r.doc, "score", 0),
                    rerank_score |-> similarity,
                    score |-> combined] @@ r.doc]

\* rerank: the loop over results[1:]: [exc, value], value being scored_docs
RECURSIVE ScoreLoop(_, _, _)

ScoreLoop(query_embedding, rest, scored_docs) ==
    IF rest = <<>>
    THEN [exc |-> "none", value |-> scored_docs]
    ELSE LET r == Head(rest) IN
         IF r.exc
         THEN ScoreLoop(query_embedding, Tail(rest), scored_docs)
         ELSE LET one == ScoreOne(query_embedding, r) IN
              IF one.exc # "none"
              THEN [exc |-> one.exc, value |-> <<>>]
              ELSE ScoreLoop(query_embedding, Tail(rest),
                             Append(scored_docs, one.value))

\* the place list.sort(key = score, reverse = True) gives x among the sorted
\* list before: behind every element whose score is not lower
RECURSIVE InsertPoint(_, _, _)

InsertPoint(sorted, x, i) ==
    IF i > Len(sorted) \/ Get(sorted[i], "score", 0) < Get(x, "score", 0)
    THEN i
    ELSE InsertPoint(sorted, x, i + 1)

\* the place an unstable sort gives x: before the elements of the same score
RECURSIVE InsertPointBeforeTies(_, _, _)

InsertPointBeforeTies(sorted, x, i) ==
    IF i > Len(sorted) \/ Get(sorted[i], "score", 0) <= Get(x, "score", 0)
    THEN i
    ELSE InsertPointBeforeTies(sorted, x, i + 1)

\* a descending sort that puts a document before the documents of the same score
RECURSIVE sort_by_score_unstable(_, _)

sort_by_score_unstable(docs, sorted) ==
    IF docs = <<>>
    THEN sorted
    ELSE LET x == Head(docs)
             i == InsertPointBeforeTies(sorted, x, 1)
         IN  sort_by_score_unstable(Tail(docs),
                                    SubSeq(sorted, 1, i - 1) \o <<x>> \o
                                        SubSeq(sorted, i, Len(sorted)))

\* rerank: scored_docs.sort(key=lambda x: x.get("score", 0), reverse=True),
\* a stable sort: the documents of docs are inserted in turn into sorted
RECURSIVE sort_by_score(_, _)

sort_by_score(docs, sorted) ==
    IF docs = <<>>
    THEN sorted
    ELSE LET x == Head(docs)
             i == InsertPoint(sorted, x, 1)
         IN  sort_by_score(Tail(docs),
                           SubSeq(sorted, 1, i - 1) \o <<x>> \o
                               SubSeq(sorted, i, Len(sorted)))

\* a gather that hands the results back in the order the requests ended
gather_as_completed(outcomes, order) ==
    [i \in 1..Len(outcomes) |-> outcomes[order[i]]]

\* asyncio.gather(*tasks, return_exceptions=True): the results are in the
\* order of tasks, whatever the order in which the requests ended
gather(outcomes, order) == outcomes

\* rerank: the body of the try block once gather has returned: [exc, value]
rerank_try(docs, k, outcomes) ==
    LET query_embedding == query_embedding_of(outcomes[1])
        gathered == [i \in 1..Len(docs) |->
                       _get_doc_embedding(i - 1, docs[i], outcomes[i + 1])]
    IN  IF ~ListTruthy(query_embedding)
        THEN [exc |-> "none", returned |-> TRUE, value |-> Slice(docs, k)]
        ELSE LET loop == ScoreLoop(query_embedding, gathered, <<>>) IN
             IF loop.exc # "none"
             THEN [exc |-> loop.exc, returned |-> FALSE, value |-> <<>>]
             ELSE [exc |-> "none", returned |-> TRUE,
                   value |-> Slice(sort_by_score(loop.value, <<>>), k)]

\* rerank without its except clause
rerank_except_reraises(docs, k, r) == r

\* rerank: except Exception: return documents[:top_k]
rerank_except(docs, k, r) ==
    IF r.exc # "none"
    THEN [exc |-> "none", returned |-> TRUE, value |-> Slice(docs, k)]
    ELSE r

\* rerank going on with an empty list of documents
no_documents_never(docs) == FALSE

\* rerank: if not documents
no_documents(docs) == docs = <<>>

\* The documents the vector store returns: id, content, metadata and score
\* (VectorDBService.search); a caller of rerank may also pass one with no score
Scores == <<500, 800>>

Document(i, choice) ==
    LET fields == [id |-> "doc" \o ToString(i),
                   content |-> "text" \o ToString(i),
                   metadata |-> [title |-> "title" \o ToString(i)]]
    IN  IF choice = 0 THEN fields ELSE [score |-> Scores[choice]] @@ fields

DocumentLists ==
    UNION {{[i \in 1..n |-> Document(i, c[i])] : c \in [1..n -> 0..Len(Scores)]} :
              n \in 0..MaxDocs}

TopKs == {0, 2, RERANK_TOP_K}

\* rerank is called
RerankStart ==
    /\ rpc = "call"
    /\ IF no_documents(documents)
       THEN /\ ret' = [exc |-> "none", returned |-> TRUE, value |-> <<>>]
            /\ rpc' = "done"
            /\ fetch' = fetch
       ELSE /\ fetch' = [i \in 1..(Len(documents) + 1) |-> Pending]
            /\ rpc' = "gather"
            /\ ret' = ret
    /\ UNCHANGED <<documents, top_k, completed>>
    /\ UNCHANGED ask_vars
    /\ UNCHANGED gateway_vars
    /\ UNCHANGED boundary_vars
    /\ UNCHANGED peer_vars

\* one of the requests asyncio.gather waits for ends: it returns or it raises
FetchCompletesAs(tracked) ==
    /\ rpc = "gather"
    /\ \E i \in 1..Len(fetch) :
          /\ fetch[i] = Pending
          /\ \E o \in (IF i = 1 THEN QueryOutcomes ELSE DocOutcomes) :
                fetch' = [fetch EXCEPT ![i] = o]
          /\ completed' = IF tracked THEN Append(completed, i) ELSE completed
    /\ UNCHANGED <<documents, top_k, rpc, ret>>
    /\ UNCHANGED ask_vars
    /\ UNCHANGED gateway_vars
    /\ UNCHANGED boundary_vars
    /\ UNCHANGED peer_vars

\* the requests end in any order, which is not recorded
FetchCompletes == FetchCompletesAs(FALSE)

\* the requests end in any order, which is recorded
FetchCompletesInOrder == FetchCompletesAs(TRUE)

\* gather returns, rerank scores, sorts and returns
RerankFinish ==
    /\ rpc = "gather"
    /\ \A i \in 1..Len(fetch) : fetch[i] # Pending
    /\ ret' = rerank_except(documents, top_k,
                             rerank_try(documents, top_k, gather(fetch, completed)))
    /\ rpc' = "done"
    /\ UNCHANGED <<documents, top_k, fetch, completed>>
    /\ UNCHANGED ask_vars
    /\ UNCHANGED gateway_vars
    /\ UNCHANGED boundary_vars
    /\ UNCHANGED peer_vars

GatewayIdle ==
    /\ settings = DefaultSettings
    /\ fallback_enabled = TRUE
    /\ pc = "idle"
    /\ req = NoRequest
    /\ stream = FALSE
    /\ allow_fallback = TRUE
    /\ config = NewLLMConfig
    /\ cur = NewLLMConfig
    /\ tf_config = NewLLMConfig
    /\ next_level = 0
    /\ attempts = <<>>
    /\ result = NoResult
    /\ out = <<>>
    /\ nlines = 0
    /\ frames = <<>>
    /\ payload = NoPayload
    /\ peer = NoPeer

InitRerank ==
    /\ GatewayIdle
    /\ documents \in DocumentLists
    /\ top_k \in TopKs
    /\ rpc = "call"
    /\ fetch = <<>>
    /\ completed = <<>>
    /\ ret = NoReturn
    /\ AskIdle
    /\ BoundaryIdle

NextRerank ==
    \/ RerankStart
    \/ FetchCompletes
    \/ RerankFinish

SpecRerank == InitRerank /\ [][NextRerank]_vars

\* rerank followed with the order in which its requests end, for up to two
\* documents
GatherDocumentLists == {d \in DocumentLists : Len(d) <= 2}

InitGather ==
    /\ GatewayIdle
    /\ documents \in GatherDocumentLists
    /\ top_k \in TopKs
    /\ rpc = "call"
    /\ fetch = <<>>
    /\ completed = <<>>
    /\ ret = NoReturn
    /\ AskIdle
    /\ BoundaryIdle

NextGather ==
    \/ RerankStart
    \/ FetchCompletesInOrder
    \/ RerankFinish

SpecGather == InitGather /\ [][NextGather]_vars

----------------------------------------------------------------------------
(* app/core/rag.py *)

\* messages a request carries, at most
MaxMessages == 3

\* the messages of a request: ChatMessage.model_dump(), role and content
MessageChoices ==
    {[role |-> "system", content |-> "sys"],
     [role |-> "user", content |-> "q1"],
     [role |-> "user", content |-> "q2"],
     [role |-> "user", content |-> ""],
     [role |-> "assistant", content |-> "a1"]}

MessageLists == UNION {[1..n -> MessageChoices] : n \in 0..MaxMessages}

\* what VectorDBService.search can return
StoreResults ==
    {<<>>, <<Document(1, 2)>>, <<Document(1, 1), Document(2, 2)>>}

AllStoreResults ==
    StoreResults \cup {<<Document(1, 2), Document(2, 1), Document(3, 2)>>}

\* the top_k a caller of search passes: a count, settings.RERANK_TOP_K in ask
SearchTopKs == {0, 1, 2, 3, RERANK_TOP_K}

SearchArguments ==
    [query : {"q1"}, top_k : SearchTopKs, rerank : BOOLEAN]

\* ask: the loop over reversed(messages), from position i down: user_message
RECURSIVE ScanReversed(_, _)

ScanReversed(msgs, i) ==
    IF i = 0 THEN None
    ELSE IF msgs[i].role = "user" THEN msgs[i].content
    ELSE ScanReversed(msgs, i - 1)

\* a scan that starts at the first message
RECURSIVE ScanForward(_, _)

ScanForward(msgs, i) ==
    IF i > Len(msgs) THEN None
    ELSE IF msgs[i].role = "user" THEN msgs[i].content
    ELSE ScanForward(msgs, i + 1)

\* the user message ask takes, by a scan from the front
user_message_first(msgs) == ScanForward(msgs, 1)

\* a user message taken from the last message whatever its role
user_message_any_role(msgs) ==
    IF msgs = <<>> THEN None ELSE msgs[Len(msgs)].content

\* ask: user_message, None when no message has the role user
user_message_of(msgs) == ScanReversed(msgs, Len(msgs))

\* ask: the arguments of its call of search; rerank is search's default
search_arguments(user_message) ==
    [query |-> user_message, top_k |-> RERANK_TOP_K, rerank |-> TRUE]

\* search_k as twice top_k
search_k_doubles(k, rerank) == IF rerank THEN k * 2 ELSE k

\* search: search_k = int(top_k * 1.5) if rerank else top_k; int() drops the
\* fraction, towards zero
search_k(k, rerank) ==
    IF ~rerank THEN k
    ELSE IF k >= 0 THEN (k * 3) \div 2
    ELSE 0 - ((0 - k) * 3) \div 2

\* ask: the entry of contexts for one result
ContextOf(r) ==
    "[" \o Get(Get(r, "metadata", << >>), "title", "unknown") \o "]("
        \o Get(r, "id", "") \o ")\n" \o Get(r, "content", "")

\* ask: RAG_SYSTEM_PROMPT.format(contexts="\n\n".join(contexts))
SystemPrompt(rs) ==
    "RAG_SYSTEM_PROMPT{" \o Join("\n\n", [i \in 1..Len(rs) |-> ContextOf(rs[i])]) \o "}"

\* ask: final_messages and final_messages[0].get("role") == "system"
has_leading_system(msgs) == msgs # <<>> /\ msgs[1].role = "system"

\* final_messages with the prompt inserted in front of a leading system message
final_messages_always_inserts(msgs, rs) ==
    IF rs = <<>> THEN msgs
    ELSE <<[role |-> "system", content |-> SystemPrompt(rs)]>> \o msgs

\* final_messages with a prompt installed for an empty list of results
final_messages_without_results_test(msgs, rs) ==
    IF has_leading_system(msgs)
    THEN [msgs EXCEPT ![1].content = SystemPrompt(rs)]
    ELSE <<[role |-> "system", content |-> SystemPrompt(rs)]>> \o msgs

\* ask: the list passed to chat after retrieval: the messages when results is
\* empty, else the messages with the prompt as the content of the leading
\* system message, or as a new system message in front
final_messages_of(msgs, rs) ==
    IF rs = <<>> THEN msgs
    ELSE IF has_leading_system(msgs)
    THEN [msgs EXCEPT ![1].content = SystemPrompt(rs)]
    ELSE <<[role |-> "system", content |-> SystemPrompt(rs)]>> \o msgs

\* ask is called: it looks for the user message and either forwards the
\* messages to chat (no user message, an empty one, or rag off) or calls search
\* retrieval that runs whatever the flag says
retrieves_ignores_flag(user_message, use_rag) == Truthy(user_message)

\* ask goes through search: there is a user message to search for, and the
\* rag flag is set
retrieves(user_message, use_rag) == Truthy(user_message) /\ use_rag

AskCall ==
    /\ apc = "ask"
    /\ LET user_message == user_message_of(messages) IN
       IF ~retrieves(user_message, rag)
       THEN /\ called' = [called EXCEPT !.chat = Append(@, messages)]
            /\ aret' = [kind |-> "chat", exc |-> "none"]
            /\ apc' = "done"
            /\ s_args' = s_args
       ELSE /\ s_args' = search_arguments(user_message)
            /\ called' = [called EXCEPT !.search = Append(@, search_arguments(user_message))]
            /\ apc' = "embed"
            /\ aret' = aret
    /\ UNCHANGED <<messages, rag, input, results>>
    /\ UNCHANGED rerank_vars
    /\ UNCHANGED gateway_vars
    /\ UNCHANGED boundary_vars
    /\ UNCHANGED peer_vars

\* search going on to the vector store after a failed embed call
SearchEmbed_catches ==
    /\ apc = "embed"
    /\ \E raises \in BOOLEAN :
          called' = [called EXCEPT
                       !.embed = Append(@, s_args.query),
                       !.failed = IF raises THEN Append(@, "embedding") ELSE @]
    /\ apc' = "store"
    /\ UNCHANGED <<messages, rag, input, s_args, results, aret>>
    /\ UNCHANGED rerank_vars
    /\ UNCHANGED gateway_vars
    /\ UNCHANGED boundary_vars
    /\ UNCHANGED peer_vars

\* search: query_vector = await self.embedding.embed(query), which returns or raises
SearchEmbed ==
    /\ apc = "embed"
    /\ \E raises \in BOOLEAN :
          IF raises
          THEN /\ apc' = "done"
               /\ aret' = [kind |-> "raise", exc |-> "embedding"]
               /\ called' = [called EXCEPT !.embed = Append(@, s_args.query),
                                           !.failed = Append(@, "embedding")]
          ELSE /\ apc' = "store"
               /\ aret' = aret
               /\ called' = [called EXCEPT !.embed = Append(@, s_args.query)]
    /\ UNCHANGED <<messages, rag, input, s_args, results>>
    /\ UNCHANGED rerank_vars
    /\ UNCHANGED gateway_vars
    /\ UNCHANGED boundary_vars
    /\ UNCHANGED peer_vars

\* search: results = self.vectordb.search(top_k=search_k), which returns one
\* of the lists of choices or raises, and the call of rerank when rerank is
\* on and results is not empty
SearchStoreFrom(choices) ==
    /\ apc = "store"
    /\ LET asked == [called EXCEPT
                        !.store = Append(@, search_k(s_args.top_k, s_args.rerank))]
       IN  \/ /\ apc' = "done"
              /\ aret' = [kind |-> "raise", exc |-> "vectordb"]
              /\ called' = [asked EXCEPT !.failed = Append(@, "vectordb")]
              /\ UNCHANGED <<results, documents, top_k, rpc>>
           \/ \E found \in choices :
                 /\ Len(found) <= search_k(s_args.top_k, s_args.rerank)
                 /\ results' = found
                 /\ aret' = aret
                 /\ IF s_args.rerank /\ found # <<>>
                    THEN /\ documents' = found
                         /\ top_k' = s_args.top_k
                         /\ rpc' = "call"
                         /\ apc' = "rerank"
                         /\ called' = [asked EXCEPT
                                         !.rerank = Append(@, [query |-> s_args.query,
                                                               top_k |-> s_args.top_k])]
                    ELSE /\ apc' = "return"
                         /\ called' = asked
                         /\ UNCHANGED <<documents, top_k, rpc>>
    /\ UNCHANGED <<messages, rag, input, s_args, fetch, completed, ret>>
    /\ UNCHANGED gateway_vars
    /\ UNCHANGED boundary_vars
    /\ UNCHANGED peer_vars

SearchStore == SearchStoreFrom(StoreResults)

\* the vector store answering with up to three candidates
SearchStoreAny == SearchStoreFrom(AllStoreResults)

\* search: results = await self.reranker.rerank(...) returns
SearchReranked ==
    /\ apc = "rerank"
    /\ rpc = "done"
    /\ results' = ret.value
    /\ apc' = "return"
    /\ UNCHANGED <<messages, rag, input, s_args, called, aret>>
    /\ UNCHANGED rerank_vars
    /\ UNCHANGED gateway_vars
    /\ UNCHANGED boundary_vars
    /\ UNCHANGED peer_vars

\* search: return results[:top_k]
SearchReturn ==
    /\ apc = "return"
    /\ results' = Slice(results, s_args.top_k)
    /\ apc' = "context"
    /\ UNCHANGED <<messages, rag, input, s_args, called, aret>>
    /\ UNCHANGED rerank_vars
    /\ UNCHANGED gateway_vars
    /\ UNCHANGED boundary_vars
    /\ UNCHANGED peer_vars

\* ask: final_messages = messages.copy() is a new list of the same dicts, so
\* the assignment to final_messages[0]["content"] is seen through messages;
\* then chat is called with final_messages
AskForward ==
    /\ apc = "context"
    /\ messages' = IF results # <<>> /\ has_leading_system(messages)
                   THEN final_messages_of(messages, results)
                   ELSE messages
    /\ called' = [called EXCEPT !.chat = Append(@, final_messages_of(messages, results))]
    /\ aret' = [kind |-> "chat", exc |-> "none"]
    /\ apc' = "done"
    /\ UNCHANGED <<rag, input, s_args, results>>
    /\ UNCHANGED rerank_vars
    /\ UNCHANGED gateway_vars
    /\ UNCHANGED boundary_vars
    /\ UNCHANGED peer_vars

InitAsk ==
    /\ GatewayIdle
    /\ RerankIdle
    /\ BoundaryIdle
    /\ messages \in MessageLists
    /\ input = messages
    /\ rag \in BOOLEAN
    /\ apc = "ask"
    /\ s_args = NoSearch
    /\ results = <<>>
    /\ called = NoCalls
    /\ aret = NoOutcome

NextAsk ==
    \/ AskCall
    \/ SearchEmbed
    \/ SearchStore
    \/ RerankStart
    \/ FetchCompletes
    \/ RerankFinish
    \/ SearchReranked
    \/ SearchReturn
    \/ AskForward

SpecAsk == InitAsk /\ [][NextAsk]_vars

\* search called on its own, as POST /v1/search calls it
InitSearch ==
    /\ GatewayIdle
    /\ RerankIdle
    /\ BoundaryIdle
    /\ messages = <<>>
    /\ input = <<>>
    /\ rag = FALSE
    /\ apc = "embed"
    /\ s_args \in SearchArguments
    /\ results = <<>>
    /\ called = [NoCalls EXCEPT !.search = <<s_args>>]
    /\ aret = NoOutcome

NextSearch ==
    \/ SearchEmbed
    \/ SearchStoreAny
    \/ RerankStart
    \/ FetchCompletes
    \/ RerankFinish
    \/ SearchReranked
    \/ SearchReturn

SpecSearch == InitSearch /\ [][NextSearch]_vars

\* _call_llm on a config of the Anthropic adapter, with the messages chat
\* was given: called.chat[1]
AdapterMessageChoices == MessageChoices \cup {[role |-> "system", content |-> "sys2"]}

AdapterMessageLists == UNION {[1..n -> AdapterMessageChoices] : n \in 0..MaxMessages}

AnthropicConfigs == {c \in ChatConfigs : Adapter(c) = "anthropic" /\ ~c.is_fallback}

\* _anthropic_chat: the split of the messages, then the generator is returned
\* or the request is sent and answered
AnthropicChat ==
    /\ pc = "adapter"
    /\ payload' = anthropic_payload(called.chat[1])
    /\ IF stream
       THEN ReturnsGenerator /\ attempts' = attempts
       ELSE \E resp \in BackendResponses :
              LET r == _anthropic_chat(cur, resp) IN
              /\ attempts' = Append(attempts, Attempt(cur, FALSE, r))
              /\ IF r.exc = "none" THEN Returns(r) ELSE Raises(r.exc, r.status)
    /\ UNCHANGED rag_vars
    /\ UNCHANGED peer_vars
    /\ UNCHANGED <<settings, fallback_enabled, req, stream, allow_fallback, config,
                   cur, tf_config, next_level, out, nlines, frames>>

InitAnthropic ==
    /\ settings = DefaultSettings
    /\ fallback_enabled = TRUE
    /\ pc = "adapter"
    /\ req = NoRequest
    /\ stream \in BOOLEAN
    /\ allow_fallback = TRUE
    /\ config \in AnthropicConfigs
    /\ cur = config
    /\ tf_config = NewLLMConfig
    /\ next_level = 0
    /\ attempts = <<>>
    /\ result = NoResult
    /\ out = <<>>
    /\ nlines = 0
    /\ frames = <<>>
    /\ payload = NoPayload
    /\ peer = NoPeer
    /\ RerankIdle
    /\ BoundaryIdle
    /\ messages = <<>>
    /\ rag = FALSE
    /\ apc = "done"
    /\ input = <<>>
    /\ s_args = NoSearch
    /\ results = <<>>
    /\ \E msgs \in AdapterMessageLists : called = [NoCalls EXCEPT !.chat = <<msgs>>]
    /\ aret = [kind |-> "chat", exc |-> "none"]

NextAnthropic == AnthropicChat

SpecAnthropic == InitAnthropic /\ [][NextAnthropic]_vars

----------------------------------------------------------------------------
(* app/api/chat.py: stream_response *)

\* the events stream_response yields.  delta: the values of the chunk's delta
\* dict, <<>> for {}
ContentChunk(chunk) == [data |-> "chunk", delta |-> <<chunk>>, finish_reason |-> None]
FinalChunk == [data |-> "chunk", delta |-> <<>>, finish_reason |-> "stop"]
ErrorText(exc) == [error |-> exc]
ErrorChunk(exc) == [data |-> "chunk", delta |-> <<ErrorText(exc)>>, finish_reason |-> "error"]
EndMarker == [data |-> "[DONE]"]

\* the except clause without its last yield
except_events_without_marker(exc) == <<ErrorChunk(exc)>>

\* except Exception as e: the error chunk, then the end marker
except_events(exc) == <<ErrorChunk(exc), EndMarker>>

\* after the loop: the final chunk, then the end marker
completion_events == <<FinalChunk, EndMarker>>

\* ask: return await self.llm.chat(final_messages, llm_config, stream=stream)
AskAwaitsChat ==
    /\ bpc = "ask"
    /\ apc = "done"
    /\ aret.kind = "chat"
    /\ pc = "idle"
    /\ pc' = "chat"
    /\ UNCHANGED rag_vars
    /\ UNCHANGED peer_vars
    /\ UNCHANGED <<frames, payload>>
    /\ UNCHANGED <<settings, fallback_enabled, req, stream, allow_fallback, config,
                   cur, tf_config, next_level, attempts, result, out, nlines>>

\* generator = await rag_pipeline.ask(...) returned the generator chat returned
BoundaryIterates ==
    /\ bpc = "ask"
    /\ pc = "stream"
    /\ bpc' = "iterate"
    /\ sse' = sse
    /\ UNCHANGED gateway_vars
    /\ UNCHANGED rerank_vars
    /\ UNCHANGED ask_vars
    /\ UNCHANGED peer_vars

\* async for chunk in generator: the generator runs up to its next yield, its
\* end or its exception, once the chunks it has yielded are taken
BoundaryNext ==
    /\ bpc = "iterate"
    /\ Len(sse) = Len(out)
    /\ \/ StreamOpenSome
       \/ StreamLineOfFrames
       \/ StreamEndOfFrames

\* the body of the loop: one event for the chunk the generator yielded
BoundaryChunk ==
    /\ bpc = "iterate"
    /\ Len(sse) < Len(out)
    /\ sse' = Append(sse, ContentChunk(out[Len(sse) + 1]))
    /\ bpc' = bpc
    /\ UNCHANGED gateway_vars
    /\ UNCHANGED rerank_vars
    /\ UNCHANGED ask_vars
    /\ UNCHANGED peer_vars

\* the generator is exhausted: the statements after the loop
BoundaryCompletes ==
    /\ bpc = "iterate"
    /\ Len(sse) = Len(out)
    /\ result.kind = "exhausted"
    /\ sse' = sse \o completion_events
    /\ bpc' = "done"
    /\ UNCHANGED gateway_vars
    /\ UNCHANGED rerank_vars
    /\ UNCHANGED ask_vars
    /\ UNCHANGED peer_vars

\* except Exception as e: ask raised, or the generator raised in the loop
BoundaryExcept ==
    /\ \/ /\ bpc = "ask"
          /\ apc = "done"
          /\ aret.kind = "raise"
          /\ sse' = sse \o except_events(aret.exc)
       \/ /\ bpc = "iterate"
          /\ Len(sse) = Len(out)
          /\ result.kind = "gen_raise"
          /\ sse' = sse \o except_events(result.exc)
    /\ bpc' = "done"
    /\ UNCHANGED gateway_vars
    /\ UNCHANGED rerank_vars
    /\ UNCHANGED ask_vars
    /\ UNCHANGED peer_vars

\* the responses followed through stream_response
BoundaryLines ==
    {l \in BackendLines :
       \/ l.shape \in {"[DONE]", "empty_choices"}
       \/ l.shape = "openai_delta" /\ l.text \in Texts
       \/ l.shape \in {"content_block_delta", "ollama_message"} /\ l.text = "a"}

BoundaryFrameLists == UNION {[1..n -> BoundaryLines] : n \in 0..MaxLines}

\* the vector store finding nothing, or raising
SearchStoreNone == SearchStoreFrom({<<>>})

\* chat_completions with request.stream: stream_response(messages, llm_config,
\* request.rag) is started
InitBoundary ==
    /\ settings = DefaultSettings
    /\ fallback_enabled = TRUE
    /\ pc = "idle"
    /\ req = NoRequest
    /\ stream = TRUE
    /\ allow_fallback = TRUE
    /\ config \in StreamConfigs
    /\ cur = config
    /\ tf_config = NewLLMConfig
    /\ next_level = 0
    /\ attempts = <<>>
    /\ result = NoResult
    /\ out = <<>>
    /\ nlines = 0
    /\ frames \in BoundaryFrameLists
    /\ payload = NoPayload
    /\ peer = NoPeer
    /\ RerankIdle
    /\ messages = <<[role |-> "user", content |-> "q1"]>>
    /\ input = messages
    /\ rag \in BOOLEAN
    /\ apc = "ask"
    /\ s_args = NoSearch
    /\ results = <<>>
    /\ called = NoCalls
    /\ aret = NoOutcome
    /\ sse = <<>>
    /\ bpc = "ask"

NextBoundary ==
    \/ AskCall
    \/ SearchEmbed
    \/ SearchStoreNone
    \/ SearchReturn
    \/ AskForward
    \/ AskAwaitsChat
    \/ ChatDirect
    \/ ChatTry
    \/ BoundaryIterates
    \/ BoundaryNext
    \/ BoundaryChunk
    \/ BoundaryCompletes
    \/ BoundaryExcept

SpecBoundary == InitBoundary /\ [][NextBoundary]_vars

----------------------------------------------------------------------------
(* The claims *)

\* the last backend call of the request
Last == attempts[Len(attempts)]

\* the request got past resolution
Resolved == pc # "idle" /\ result.exc # "ProviderNotFoundError"

\* the retryable classes as the specification lists them
SpecRetryableErrors ==
    {"ConnectError", "ConnectTimeout", "ReadTimeout", "WriteTimeout", "PoolTimeout"}
SpecRetryableStatuses == {429, 500, 502, 503, 504}

\* the call a ended with an exception of a retryable class
RetryableFailure(a) ==
    \/ a.exc \in SpecRetryableErrors
    \/ a.exc = "HTTPStatusError" /\ a.status \in SpecRetryableStatuses

\* the exception the last call ended with is what the request ended with
LastIsPropagated ==
    /\ pc = "done"
    /\ result.kind \in {"raise", "gen_raise"}
    /\ result.exc = Last.exc
    /\ Last.exc = "HTTPStatusError" => result.status = Last.status

C2_HopsFollowChain ==
    \A i \in 2..Len(attempts) :
        /\ i - 1 <= Len(FALLBACK_CHAIN)
        /\ attempts[i].config.provider = FALLBACK_CHAIN[i - 1]

\* C3: a request whose fallback call to the terminal profile (ollama) failed
\* ends with LLMServiceDegraded.
C3_TerminalFailureIsDegraded ==
    (/\ pc = "done"
     /\ Len(attempts) >= 2
     /\ Last.config.provider = "ollama"
     /\ Last.config.is_fallback
     /\ Last.exc # "none")
        => (result.kind = "raise" /\ result.exc = "LLMServiceDegraded")

\* the call a failed with a retryable class, raised or answered
RetryableClass(a) ==
    \/ a.exc \in SpecRetryableErrors
    \/ a.status \in SpecRetryableStatuses

\* C4: a streaming request to a provider other than ollama, with fallback
\* allowed, whose first backend call failed with a retryable class has made a
\* second call, with a fallback config, when it ends.
C4_StreamingFallsBack ==
    (/\ pc = "done"
     /\ stream
     /\ allow_fallback
     /\ fallback_enabled
     /\ Len(attempts) >= 1
     /\ attempts[1].config.provider # "ollama"
     /\ RetryableClass(attempts[1]))
        => (Len(attempts) >= 2 /\ attempts[2].config.is_fallback)

\* the generator chat returned has been started
Started == stream /\ pc \in {"lines", "done"} /\ Len(attempts) >= 1

\* text is one line that names the model and the original provider of cfg
IsDisclosure(text, cfg) ==
    /\ Len(text) >= 3
    /\ ~Contains(SubSeq(text, 1, Len(text) - 2), "\n")
    /\ SubSeq(text, Len(text) - 1, Len(text)) = "\n\n"
    /\ Contains(text, " " \o cfg.model \o ",")
    /\ Contains(text, " " \o cfg.original_provider \o " ")

\* C5: the text chat returns for a call that succeeded on a config with
\* is_fallback starts with the disclosure of that config followed by the
\* backend's content; a generator returned for such a config yields the
\* disclosure first, before any increment of the backend; this for each of
\* the three adapters.
C5_FallbackIsDisclosed ==
    /\ (result.kind = "text" /\ Last.config.is_fallback)
           => \E n \in 1..Len(result.content) :
                 /\ IsDisclosure(SubSeq(result.content, 1, n), Last.config)
                 /\ SubSeq(result.content, n + 1, Len(result.content)) = "answer"
    /\ (Started /\ cur.is_fallback)
           => /\ Len(out) >= 1
              /\ IsDisclosure(out[1], cur)
              /\ \A i \in 2..Len(out) : out[i] \in Texts

\* a generator of the Anthropic adapter for a fallback config is exhausted
\* after it yielded the disclosure and an increment of the backend
C5_Witness ==
    /\ pc = "done"
    /\ result.kind = "exhausted"
    /\ cur.is_fallback
    /\ Adapter(cur) = "anthropic"
    /\ Len(out) = 2

\* C6: the config of every fallback hop has is_fallback, has for
\* original_provider the provider of the first call of the request, and has a
\* level greater than the level of the config before it; the same for the
\* config of a hop that is about to be called.
C6_FallbackConfig ==
    /\ \A i \in 2..Len(attempts) :
          /\ attempts[i].config.is_fallback
          /\ attempts[i].config.original_provider = attempts[1].config.provider
          /\ attempts[i].config.fallback_level > attempts[i - 1].config.fallback_level
    /\ pc = "fallback"
          => /\ cur.is_fallback
             /\ cur.original_provider = config.provider
             /\ cur.fallback_level > tf_config.fallback_level

\* a fallback hop has been called
C6_Witness ==
    /\ Len(attempts) = 2
    /\ attempts[1].config.provider = "anthropic"
    /\ attempts[2].config.original_provider = "anthropic"

Absent(x) == ~Truthy(x)

\* C9: a request that names a provider of the preset table and gives no
\* endpoint, credential or model resolves to that provider with the endpoint
\* and the default model of its entry in the table.
C9_PresetResolution ==
    (/\ pc # "idle"
     /\ req.provider \in PresetNames
     /\ Absent(req.base_url) /\ Absent(req.api_key) /\ Absent(req.model))
        => /\ result.exc = "none"
           /\ config.provider = req.provider
           /\ config.base_url = PRESET_PROVIDERS[req.provider].base_url
           /\ config.model = PRESET_PROVIDERS[req.provider].default_model

\* the request {provider: qwen} is resolved, in an environment whose default
\* provider is another
C9_Witness ==
    /\ pc = "chat"
    /\ settings.DEFAULT_PROVIDER = "ollama"
    /\ req = [provider |-> "qwen", base_url |-> None, api_key |-> None, model |-> None]
    /\ config.base_url = "https://dashscope.aliyuncs.com/compatible-mode/v1"
    /\ config.model = "qwen-plus"

\* C10: a request for a preset provider (named, or the default) that gives a
\* credential and neither endpoint nor model resolves to the credential given
\* and, in every other field, to what the request without the credential
\* resolves to.
C10_CredentialOnlyOverride ==
    (/\ pc # "idle"
     /\ Or(req.provider, settings.DEFAULT_PROVIDER) \in PresetNames
     /\ Absent(req.base_url) /\ Absent(req.model)
     /\ Truthy(req.api_key))
        => LET plain == from_request(settings, req.provider, req.base_url,
                                     None, req.model).config
           IN /\ result.exc = "none"
              /\ config.api_key = req.api_key
              /\ config.provider = plain.provider
              /\ config.base_url = plain.base_url
              /\ config.model = plain.model
              /\ config.is_fallback = plain.is_fallback
              /\ config.original_provider = plain.original_provider
              /\ config.fallback_level = plain.fallback_level
              /\ config.model = PRESET_PROVIDERS[config.provider].default_model
              /\ config.base_url = PRESET_PROVIDERS[config.provider].base_url

\* the request {provider: openai, api_key: sk-user} is resolved in an
\* environment that configures another key for openai
C10_Witness ==
    /\ pc = "chat"
    /\ req = [provider |-> "openai", base_url |-> None, api_key |-> "sk-user",
              model |-> None]
    /\ settings.keys["openai"] = "env-openai"
    /\ config.api_key = "sk-user"

\* ---------------------------------------------------------------------
\* C11: when the request supplies a custom endpoint, resolution succeeds
\* for every provider name (known, unknown or absent), the endpoint is the
\* custom one, the model is the requested one or else the placeholder
\* "custom-model", and the credential is the requested one or else empty.
CustomEndpoint == pc # "idle" /\ req.base_url \notin {None, ""}

C11_CustomEndpointResolution ==
    CustomEndpoint =>
        /\ result.exc # "ProviderNotFoundError"
        /\ config.base_url = req.base_url
        /\ config.model = (IF Absent(req.model) THEN "custom-model" ELSE req.model)
        /\ config.api_key = (IF Absent(req.api_key) THEN "" ELSE req.api_key)

C11_Witness ==
    /\ CustomEndpoint
    /\ req.provider = "mystery"
    /\ req.model = None
    /\ req.api_key = None
    /\ config.base_url = "https://custom/v1"
    /\ config.model = "custom-model"
    /\ config.api_key = ""

\* ---------------------------------------------------------------------
\* C12: when the request has no custom endpoint and the provider name, after
\* defaulting to the configured default, is not a preset, the request fails
\* with ProviderNotFoundError, the message lists every valid provider name,
\* and neither a backend call nor a fallback is ever made.
SpecProviderNames ==
    {"openai", "anthropic", "deepseek", "qwen", "glm", "gemini",
     "openrouter", "siliconflow", "ollama"}

UnknownProvider ==
    /\ pc # "idle"
    /\ req.base_url \in {None, ""}
    /\ (IF Absent(req.provider) THEN settings.DEFAULT_PROVIDER ELSE req.provider)
           \notin SpecProviderNames

C12_UnknownProviderFails ==
    UnknownProvider =>
        /\ pc = "done"
        /\ result.kind = "raise"
        /\ result.exc = "ProviderNotFoundError"
        /\ \A p \in SpecProviderNames : Contains(result.content, p)
        /\ attempts = << >>
        /\ next_level = 0

C12_Witness ==
    /\ UnknownProvider
    /\ req.provider = "mystery"
    /\ result.exc = "ProviderNotFoundError"
    /\ Contains(result.content, "siliconflow")
    /\ attempts = << >>

\* ---------------------------------------------------------------------
\* C13: with a custom endpoint the provider label is informational only:
\* the request is dispatched to the same adapter and gets the same fallback
\* handling as the same request under any other label, absent included.
C13_LabelIsInformational ==
    (CustomEndpoint /\ Resolved) =>
        \A label \in ReqProviders :
            LET other == from_request(settings, label, req.base_url,
                                      req.api_key, req.model).config
            IN  /\ Adapter(other) = Adapter(config)
                /\ IsLastLevel(other) = IsLastLevel(config)

\* ---------------------------------------------------------------------
\* Reranking: the vocabulary of C14..C19

Smaller(a, b) == IF a < b THEN a ELSE b

\* the position in documents of the candidate with the id of x
InputIndex(x) == CHOOSE i \in 1..Len(documents) : documents[i].id = x.id

\* the request for candidate i's embedding
FetchOf(i) == fetch[i + 1]

\* rerank has returned or raised
RerankDone == rpc = "done" /\ fetch # <<>>

\* the query embedding was computed: the request returned a vector
QueryEmbedded == FetchOf(0).state = "returned" /\ FetchOf(0).embedding.items # <<>>

\* every embedding the backend returned for a candidate is a list of numbers
WellFormed == \A i \in 1..Len(documents) : FetchOf(i).embedding.numeric

\* cosine similarity of the vectors of the model, as fractions worked by
\* hand: (3,4).(3,4)/25 = 1, (3,4).(4,3)/25 = 24/25, and 0 for a zero vector
SpecSimilarity(q, v) ==
    CASE q = <<0, 0>> \/ v = <<0, 0>> -> 0
      [] q = v -> 1000
      [] OTHER -> 960

\* the combined score of candidate i, in ten-thousandths
SpecCombined10(i) ==
    LET original == IF "score" \in DOMAIN documents[i]
                    THEN documents[i].score
                    ELSE IF FetchOf(i).state = "returned" THEN 500 ELSE 0
    IN  IF FetchOf(i).state = "returned"
        THEN 3 * original +
             7 * SpecSimilarity(FetchOf(0).embedding.items, FetchOf(i).embedding.items)
        ELSE 10 * original

\* ---------------------------------------------------------------------
\* C14: when the query embedding is computed, a returned candidate whose
\* embedding was fetched has score 0.3 * original + 0.7 * similarity, and a
\* returned candidate whose fetch failed has similarity 0 and its original
\* score as its score.
C14_ScoreFusion ==
    (RerankDone /\ QueryEmbedded /\ WellFormed) =>
        \A j \in 1..Len(ret.value) :
            LET x == ret.value[j]
                i == InputIndex(x)
            IN  "score" \in DOMAIN documents[i] =>
                    IF FetchOf(i).state = "returned"
                    THEN 10 * x.score =
                             3 * documents[i].score +
                             7 * SpecSimilarity(FetchOf(0).embedding.items,
                                                FetchOf(i).embedding.items)
                    ELSE x.rerank_score = 0 /\ x.score = documents[i].score

C14_Witness ==
    /\ RerankDone /\ QueryEmbedded /\ WellFormed
    /\ \E j, k \in 1..Len(ret.value) :
          /\ Get(documents[InputIndex(ret.value[j])], "score", 0) = 500
          /\ FetchOf(InputIndex(ret.value[j])) = Fetched(Vector(<<4, 3>>))
          /\ ret.value[j].score = 822
          /\ Get(documents[InputIndex(ret.value[k])], "score", 0) = 800
          /\ FetchOf(InputIndex(ret.value[k])) = Raised
          /\ ret.value[k].score = 800

\* ---------------------------------------------------------------------
\* C15: the output of a rerank that scored is in descending order of combined
\* score, candidates of equal score keep their input order, and it is the
\* first top_k candidates of that order: the list is cut after it is sorted.
Before(i, j) ==
    \/ SpecCombined10(i) > SpecCombined10(j)
    \/ SpecCombined10(i) = SpecCombined10(j) /\ i < j

C15_SortedThenTruncated ==
    (RerankDone /\ QueryEmbedded /\ WellFormed) =>
        /\ Len(ret.value) = Smaller(Len(documents), top_k)
        /\ \A a, b \in 1..Len(ret.value) :
              a < b => Before(InputIndex(ret.value[a]), InputIndex(ret.value[b]))
        /\ \A a \in 1..Len(ret.value) : \A i \in 1..Len(documents) :
              (\A b \in 1..Len(ret.value) : InputIndex(ret.value[b]) # i)
                  => Before(InputIndex(ret.value[a]), i)

C15_Witness ==
    /\ RerankDone /\ QueryEmbedded /\ WellFormed
    /\ Len(documents) = 3
    /\ top_k = 2
    /\ SpecCombined10(1) = SpecCombined10(2)
    /\ ret.value[1].id = "doc3"
    /\ ret.value[2].id = "doc1"

\* ---------------------------------------------------------------------
\* C16: a failed fetch of one candidate's embedding is not fatal: the output
\* has min(n, top_k) entries whatever subset of the fetches fails, a failed
\* candidate stays in the list that is sorted, and every other candidate has
\* the score it has in the run where no fetch fails.
NoneFailed ==
    [i \in 1..Len(fetch) |->
        IF i > 1 /\ fetch[i] = Raised THEN Fetched(Vector(<<3, 4>>)) ELSE fetch[i]]

ScoresWhenNoneFailed ==
    rerank_except(documents, Len(documents),
                  rerank_try(documents, Len(documents), NoneFailed)).value

C16_FetchFailureIsLocal ==
    (RerankDone /\ QueryEmbedded /\ WellFormed) =>
        /\ Len(ret.value) = Smaller(Len(documents), top_k)
        /\ top_k >= Len(documents) =>
              \A i \in 1..Len(documents) :
                  Cardinality({j \in 1..Len(ret.value) :
                                   ret.value[j].id = documents[i].id}) = 1
        /\ \A j \in 1..Len(ret.value) :
              FetchOf(InputIndex(ret.value[j])).state = "returned" =>
                  \E y \in 1..Len(ScoresWhenNoneFailed) :
                      /\ ScoresWhenNoneFailed[y].id = ret.value[j].id
                      /\ ScoresWhenNoneFailed[y].score = ret.value[j].score

C16_Witness ==
    /\ RerankDone /\ QueryEmbedded /\ WellFormed
    /\ Len(documents) = 3
    /\ FetchOf(1) = Fetched(Vector(<<4, 3>>))
    /\ FetchOf(2) = Raised
    /\ FetchOf(3) = Raised
    /\ Len(ret.value) = 3
    /\ \E j \in 1..3 : ret.value[j].id = "doc2" /\ ret.value[j].rerank_score = 0

\* ---------------------------------------------------------------------
\* C17: when the request for the query embedding fails, rerank returns the
\* first top_k documents it was given, in their order, each exactly as given.
C17_QueryFailureKeepsInput ==
    (RerankDone /\ FetchOf(0) = Raised) =>
        /\ ret.returned
        /\ Len(ret.value) = Smaller(Len(documents), top_k)
        /\ \A j \in 1..Len(ret.value) : ret.value[j] = documents[j]

C17_Witness ==
    /\ RerankDone
    /\ FetchOf(0) = Raised
    /\ Len(documents) = 3
    /\ FetchOf(1) = Fetched(Vector(<<3, 4>>))
    /\ "score" \in DOMAIN documents[1]
    /\ Len(ret.value) = 2
    /\ ret.value[2] = documents[2]

\* ---------------------------------------------------------------------
\* C18: rerank raises nothing to its caller, whatever fetches fail and
\* whatever else goes wrong: it returns a list, and when an unexpected error
\* stopped the scoring the list is the first top_k documents as given.
UnexpectedError ==
    /\ QueryEmbedded
    /\ \E i \in 1..Len(documents) : ~FetchOf(i).embedding.numeric

C18_NeverRaises ==
    rpc = "done" =>
        /\ ret.returned
        /\ ret.exc = "none"
        /\ (fetch # <<>> /\ UnexpectedError) =>
               ret.value = SubSeq(documents, 1, Smaller(Len(documents), top_k))

C18_Witness ==
    /\ RerankDone
    /\ UnexpectedError
    /\ FetchOf(1) = Fetched(Vector(<<3, 4>>))
    /\ Len(documents) = 3
    /\ ret.returned
    /\ ret.value = <<documents[1], documents[2]>>

\* ---------------------------------------------------------------------
\* C19: given no documents, rerank returns the empty list at once and issues
\* no embedding request.
C19_EmptyInput ==
    (documents = <<>> /\ rpc \notin {"idle", "call"}) =>
        /\ rpc = "done"
        /\ ret.returned
        /\ ret.value = <<>>
        /\ fetch = <<>>

C19_Witness ==
    /\ documents = <<>>
    /\ rpc = "done"
    /\ ret.returned
    /\ ret.value = <<>>
    /\ fetch = <<>>

\* ---------------------------------------------------------------------
\* Retrieval: the vocabulary of C20

\* the positions of the user messages of the request
UserPositions == {i \in 1..Len(input) : input[i].role = "user"}

LastUserPosition == CHOOSE i \in UserPositions : \A j \in UserPositions : j <= i

\* ask is past the point where it calls search or decides not to
PastRetrievalDecision == apc \notin {"idle", "ask"}

\* C20 as stated: with rag on and a user message in the request, ask calls
\* search with the content of the last user message, top_k = RERANK_TOP_K
\* and rerank on, also when that content is empty.
C20_SearchWithLastUserMessage ==
    (PastRetrievalDecision /\ rag /\ UserPositions # {}) =>
        called.search = <<[query |-> input[LastUserPosition].content,
                           top_k |-> 5, rerank |-> TRUE]>>

\* C20: with rag on and a last user message of non-empty content, ask calls
\* search once, with that content as the query, top_k = RERANK_TOP_K and
\* rerank on; with a last user message of empty content it calls search not
\* at all, so the content of an earlier user message is never the query.
C20_SearchWithLastNonEmptyUserMessage ==
    (PastRetrievalDecision /\ rag /\ UserPositions # {}) =>
        IF input[LastUserPosition].content # ""
        THEN called.search = <<[query |-> input[LastUserPosition].content,
                                top_k |-> 5, rerank |-> TRUE]>>
        ELSE called.search = <<>> /\ called.embed = <<>>

C20_Witness ==
    /\ apc = "done"
    /\ rag
    /\ Len(input) = 3
    /\ input[1] = [role |-> "user", content |-> "q1"]
    /\ input[2] = [role |-> "user", content |-> "q2"]
    /\ input[3].role = "assistant"
    /\ called.search = <<[query |-> "q2", top_k |-> 5, rerank |-> TRUE]>>
    /\ called.embed = <<"q2">>
    /\ Len(called.chat) = 1

\* ---------------------------------------------------------------------
\* Pipeline: the vocabulary of C21..C26

\* ask has called chat and returned what chat returned
AskForwarded == apc = "done" /\ aret.kind = "chat"

\* the list ask passed to chat
Forwarded == called.chat[1]

NoRetrievalCalls ==
    /\ called.search = <<>>
    /\ called.embed = <<>>
    /\ called.store = <<>>
    /\ called.rerank = <<>>
    /\ rpc = "idle"
    /\ fetch = <<>>

\* ---------------------------------------------------------------------
\* C21: when no message of the request has the role user, ask makes no
\* embedding, vector-search or rerank call and passes to chat a list equal
\* to the messages it was given.
C21_NoUserMessageForwardsUnchanged ==
    (PastRetrievalDecision /\ UserPositions = {}) =>
        /\ AskForwarded
        /\ NoRetrievalCalls
        /\ called.chat = <<input>>
        /\ messages = input

C21_Witness ==
    /\ AskForwarded
    /\ rag
    /\ input = <<[role |-> "system", content |-> "sys"],
                 [role |-> "assistant", content |-> "a1"]>>
    /\ NoRetrievalCalls
    /\ called.chat = <<input>>

\* ---------------------------------------------------------------------
\* C22: when retrieval returned a candidate, the list passed to chat starts
\* with a system message holding the rendered context: it takes the place of
\* the content of a leading system message (same length), or else it is a
\* new first message (one longer); the other messages follow unchanged and
\* in order.
Rendered(content) ==
    \A i \in 1..Len(results) :
        /\ Contains(content, results[i].id)
        /\ Contains(content, results[i].content)
        /\ Contains(content, results[i].metadata.title)

C22_ContextInstalledFirst ==
    (AskForwarded /\ results # <<>>) =>
        /\ Len(called.chat) = 1
        /\ Forwarded[1].role = "system"
        /\ Rendered(Forwarded[1].content)
        /\ IF input # <<>> /\ input[1].role = "system"
           THEN /\ Len(Forwarded) = Len(input)
                /\ \A i \in 2..Len(input) : Forwarded[i] = input[i]
           ELSE /\ Len(Forwarded) = Len(input) + 1
                /\ \A i \in 1..Len(input) : Forwarded[i + 1] = input[i]

C22_Witness ==
    /\ AskForwarded
    /\ Len(results) = 2
    /\ input = <<[role |-> "system", content |-> "sys"],
                 [role |-> "user", content |-> "q1"]>>
    /\ Len(Forwarded) = 2
    /\ Forwarded[1].role = "system"
    /\ Forwarded[1].content # "sys"
    /\ Forwarded[2] = input[2]

\* ---------------------------------------------------------------------
\* C23: when rag is on and retrieval returned no candidate, the list passed
\* to chat equals the messages ask was given: no system message is inserted,
\* replaced or changed.
C23_NoCandidatesForwardsUnchanged ==
    (AskForwarded /\ rag /\ called.search # <<>> /\ results = <<>>) =>
        /\ called.chat = <<input>>
        /\ messages = input

C23_Witness ==
    /\ AskForwarded
    /\ rag
    /\ called.store = <<7>>
    /\ results = <<>>
    /\ input = <<[role |-> "system", content |-> "sys"],
                 [role |-> "user", content |-> "q1"]>>
    /\ called.chat = <<input>>

\* ---------------------------------------------------------------------
\* C24: search embeds the query exactly once, asks the vector store for
\* top_k * 1.5 candidates rounded down when rerank is on and for top_k when it
\* is off, and calls the reranker only when rerank is on and the store
\* returned a candidate.
C24_SearchCalls ==
    /\ Len(called.embed) <= 1
    /\ apc # "embed" => called.embed = <<s_args.query>>
    /\ Len(called.store) <= 1
    /\ called.store # <<>> =>
          IF s_args.rerank
          THEN /\ 2 * called.store[1] <= 3 * s_args.top_k
               /\ 3 * s_args.top_k < 2 * called.store[1] + 2
          ELSE called.store[1] = s_args.top_k
    /\ called.rerank # <<>> =>
          /\ Len(called.rerank) = 1
          /\ s_args.rerank
          /\ documents # <<>>
          /\ documents = results \/ apc \in {"return", "context"}
    /\ called.rerank = <<>> =>
          /\ rpc = "idle"
          /\ apc = "return" => (~s_args.rerank \/ results = <<>>)

C24_Witness ==
    /\ apc = "context"
    /\ s_args.rerank
    /\ s_args.top_k = 3
    /\ called.embed = <<"q1">>
    /\ called.store = <<4>>
    /\ Len(called.rerank) = 1
    /\ Len(documents) = 3

\* ---------------------------------------------------------------------
\* C25: the list search returns has at most top_k entries on every path:
\* rerank off, rerank done, rerank given up because the query embedding
\* failed, rerank stopped by an unexpected error.
SearchReturned == apc = "context"

C25_AtMostTopK ==
    SearchReturned => Len(results) <= s_args.top_k

C25_Witness ==
    /\ SearchReturned
    /\ s_args.rerank
    /\ s_args.top_k = 2
    /\ Len(documents) = 3
    /\ UnexpectedError
    /\ Len(results) = 2

\* ---------------------------------------------------------------------
\* C26: when the embedding of the query or the vector search fails inside
\* search, ask raises that failure to its caller and calls neither the
\* reranker nor chat.
C26_RetrievalFailurePropagates ==
    called.failed # <<>> =>
        /\ apc = "done"
        /\ aret.kind = "raise"
        /\ aret.exc = called.failed[1]
        /\ Len(called.failed) = 1
        /\ called.rerank = <<>>
        /\ called.chat = <<>>
        /\ rpc = "idle"

C26_Witness ==
    /\ called.failed = <<"embedding">>
    /\ rag
    /\ input = <<[role |-> "user", content |-> "q1"]>>
    /\ apc = "done"
    /\ aret = [kind |-> "raise", exc |-> "embedding"]
    /\ called.store = <<>>
    /\ called.chat = <<>>


----------------------------------------------------------------------------
(* Streaming: the order of the increments *)

\* a frame that carries an increment for the adapter: a JSON object of the
\* adapter's content shape whose content is a text
CarriesContent(adapter, frame) ==
    /\ frame.json
    /\ frame.text \in Texts
    /\ CASE adapter = "ollama" -> ~frame.data /\ frame.shape = "ollama_message"
         [] adapter = "anthropic" -> frame.data /\ frame.shape = "content_block_delta"
         [] OTHER -> frame.data /\ frame.shape = "openai_delta"

\* the frame is the sentinel that ends a stream of the OpenAI-compatible adapter
IsSentinel(adapter, frame) ==
    adapter = "openai" /\ frame.data /\ frame.shape = "[DONE]"

\* the increments the backend produced in fs, in its order, up to the sentinel
RECURSIVE BackendIncrements(_, _)
BackendIncrements(adapter, fs) ==
    IF fs = <<>> THEN <<>>
    ELSE IF IsSentinel(adapter, Head(fs)) THEN <<>>
    ELSE (IF CarriesContent(adapter, Head(fs)) THEN <<Head(fs).text>> ELSE <<>>)
            \o BackendIncrements(adapter, Tail(fs))

\* the frames the generator has read
FramesRead == SubSeq(frames, 1, nlines)

\* C27: what a streamed response has emitted is the fallback disclosure, if
\* any, followed by the text of every frame read so far that carries content,
\* one increment per such frame in the order of the frames: nothing dropped,
\* duplicated or reordered, nothing for a frame without parsable content, and
\* for the OpenAI-compatible adapter nothing from the [DONE] sentinel on; an
\* exhausted generator has emitted the increments of the whole response.
C27_IncrementsInBackendOrder ==
    /\ pc \in {"lines", "done"} =>
          out = StreamHead(cur) \o BackendIncrements(Adapter(cur), FramesRead)
    /\ result.kind = "exhausted" =>
          out = StreamHead(cur) \o BackendIncrements(Adapter(cur), frames)

\* the same for responses in which no content is null
C27_InOrderWithoutNullContent ==
    (\A i \in 1..Len(frames) : frames[i].text # None) => C27_IncrementsInBackendOrder

----------------------------------------------------------------------------
(* Streaming: the response at the boundary *)

\* retrieval or generation raised an error
StreamErrored == aret.kind = "raise" \/ result.kind = "gen_raise"

\* C28: a finished streaming response of stream_response ends with the end
\* marker [DONE], which occurs once and last; the event before it is a final
\* chunk, the only chunk with a finish_reason, which is "stop" on normal
\* completion and "error" when retrieval or generation raised (before the
\* stream or in the middle of it); the events before the final chunk are the
\* content chunks of what the generator yielded, in its order.  An unfinished
\* response has neither a final chunk nor an end marker.
C28_EndsWithFinalChunkAndMarker ==
    LET n == Len(sse) IN
    IF bpc = "done"
    THEN /\ n >= 2
         /\ sse[n] = EndMarker
         /\ \A i \in 1..(n - 1) : sse[i].data = "chunk"
         /\ sse[n - 1].finish_reason = IF StreamErrored THEN "error" ELSE "stop"
         /\ \A i \in 1..(n - 2) : sse[i].finish_reason = None
         /\ n - 2 = Len(out)
         /\ \A i \in 1..(n - 2) : sse[i].delta = <<out[i]>>
    ELSE \A i \in 1..n : sse[i].data = "chunk" /\ sse[i].finish_reason = None

\* a stream that failed after its first increment
C28_Witness ==
    /\ bpc = "done"
    /\ result.kind = "gen_raise"
    /\ Len(out) >= 1
    /\ Len(sse) = Len(out) + 2
    /\ sse[Len(sse) - 1].finish_reason = "error"

----------------------------------------------------------------------------
(* The Anthropic adapter's request body *)

\* the messages the adapter was given
AdapterMessages == called.chat[1]

\* the given messages start with a system message
LeadingSystem == AdapterMessages # <<>> /\ AdapterMessages[1].role = "system"

\* C29: the Anthropic adapter moves only a leading system message into the
\* system field: the field is the content of the first message when that is a
\* system message and is absent otherwise, and the chat turns are all the other
\* messages, a system message that is not the first among them, in their
\* original order.
C29_OnlyLeadingSystemMoved ==
    pc # "adapter" =>
       IF LeadingSystem
       THEN /\ payload.system = AdapterMessages[1].content
            /\ payload.messages = Tail(AdapterMessages)
       ELSE /\ payload.system = None
            /\ payload.messages = AdapterMessages

\* the messages of msgs that are no system message, in order
RECURSIVE NonSystem(_)
NonSystem(msgs) ==
    IF msgs = <<>> THEN <<>>
    ELSE (IF Head(msgs).role = "system" THEN <<>> ELSE <<Head(msgs)>>) \o NonSystem(Tail(msgs))

\* what the adapter sends: the turns are the messages that are no system
\* message, and the system field is the content of the last system message
C29_EverySystemMessageRemoved ==
    pc # "adapter" =>
       /\ payload.messages = NonSystem(AdapterMessages)
       /\ \A i \in 1..Len(AdapterMessages) :
             (/\ AdapterMessages[i].role = "system"
              /\ \A j \in (i + 1)..Len(AdapterMessages) : AdapterMessages[j].role # "system")
                => payload.system = AdapterMessages[i].content

----------------------------------------------------------------------------
(* Dispatch *)

\* the endpoint contains name, whatever the case of its letters
EndpointContains(endpoint, name) == Contains(Lower(endpoint), name)

\* the adapter for a provider name and an endpoint: Local first, then
\* Anthropic-style, then OpenAI-compatible
SpecAdapter(provider, endpoint) ==
    IF provider = "ollama" \/ EndpointContains(endpoint, "ollama") THEN "ollama"
    ELSE IF provider = "anthropic" \/ EndpointContains(endpoint, "anthropic")
    THEN "anthropic"
    ELSE "openai"

\* C30: every backend call of a request goes to one adapter, which is a
\* function of the provider name and the endpoint of the call's config alone:
\* Local when the provider is ollama or the endpoint contains "ollama" in any
\* case, else Anthropic-style when the provider is anthropic or the endpoint
\* contains "anthropic", else OpenAI-compatible; the Local test comes first,
\* and neither the fallback level nor is_fallback enters the choice.
C30_DispatchByProviderAndEndpoint ==
    \A i \in 1..Len(attempts) :
       attempts[i].adapter =
          SpecAdapter(attempts[i].config.provider, attempts[i].config.base_url)

\* a call for the provider anthropic at an endpoint named Ollama went to the
\* Local adapter, and so did the fallback call after it
C30_Witness ==
    /\ Len(attempts) >= 2
    /\ attempts[1].config.provider = "anthropic"
    /\ attempts[1].config.base_url = "http://My-Ollama:11434"
    /\ attempts[1].adapter = "ollama"
    /\ attempts[2].config.is_fallback
    /\ attempts[2].config.fallback_level = 1
    /\ attempts[2].adapter = "ollama"

----------------------------------------------------------------------------
(* Rerank: the fan-out *)

\* the orders in which n requests can end
Orders(n) == {p \in [1..n -> 1..n] : \A i, j \in 1..n : p[i] = p[j] => i = j}

\* the requests that have ended
Ended == {i \in 1..Len(fetch) : fetch[i] # Pending}

\* C31: rerank issues the request for the query embedding and the requests for
\* all candidates together, none waiting on another: while it waits, every one
\* of them is under way or has ended, and they end in any order.  It scores
\* only when every request has returned or failed, and what it returns
\* (members, order and scores) is the same for every order in which the
\* requests can have ended.
C31_FanOutAndOrderIndependence ==
    /\ rpc = "gather" =>
          /\ Len(fetch) = Len(documents) + 1
          /\ {completed[i] : i \in 1..Len(completed)} = Ended
    /\ (rpc = "done" /\ documents # <<>>) =>
          /\ Ended = 1..(Len(documents) + 1)
          /\ completed \in Orders(Len(fetch))
          /\ \A p \in Orders(Len(fetch)) :
                ret = rerank_except(documents, top_k,
                                    rerank_try(documents, top_k, gather(fetch, p)))

\* the request of the second candidate ended first and the query's last, the
\* two candidates' requests ended differently, and rerank scored
C31_Witness ==
    /\ rpc = "done"
    /\ completed = <<3, 2, 1>>
    /\ fetch[2] # fetch[3]
    /\ ListTruthy(query_embedding_of(fetch[1]))
    /\ ret.returned
    /\ Len(ret.value) = 2
    /\ "rerank_score" \in DOMAIN ret.value[1]

----------------------------------------------------------------------------
(* Concurrent requests *)

\* the two requests: the running one and the suspended one
Requests == {Request(OtherId(peer.id)), peer}

\* the call ended with an error after which a fallback is tried
Retryable(a) ==
    \/ a.exc \in FALLBACK_ERRORS
    \/ a.exc = "HTTPStatusError" /\ a.status \in FALLBACK_STATUS_CODES

\* after its i-th backend call the request r goes on to a fallback
GoesOn(r, i) ==
    /\ r.allow_fallback
    /\ r.attempts[i].config.provider # "ollama"
    /\ Retryable(r.attempts[i])

\* the level of the hop that follows the i-th backend call of r
HopLevel(r, i) == r.config.fallback_level + i

\* what the request r has done is what it does alone with the responses its
\* calls got: the first call is for the config it was given, each further
\* call follows a retryable failure and is for the fallback of the config
\* before it, and the outcome is that of the last call
AsAlone(r) ==
    LET a == r.attempts
        n == Len(a)
    IN  /\ n >= 1 => a[1].config = r.config
        /\ \A i \in 1..(n - 1) :
              /\ GoesOn(r, i)
              /\ HopLevel(r, i) <= Len(FALLBACK_CHAIN)
              /\ a[i + 1].config = to_fallback(settings, a[i].config, HopLevel(r, i))
        /\ r.pc = "chat" => n = 0
        /\ r.pc = "fallback" => n >= 1 /\ GoesOn(r, n)
        /\ r.pc = "done" =>
              /\ n >= 1
              /\ IF a[n].exc = "none"
                 THEN r.result.kind = "text" /\ r.result.exc = "none"
                 ELSE IF GoesOn(r, n)
                 THEN /\ HopLevel(r, n) > Len(FALLBACK_CHAIN)
                      /\ r.result.exc = "LLMServiceDegraded"
                 ELSE /\ r.result.kind = "raise"
                      /\ r.result.exc = a[n].exc
                      /\ r.result.status = a[n].status

\* C32: two requests running interleaved on the one service share no state
\* that either changes: for each of them the config it was given stays as it
\* was (it is the config of its first call), every hop is for a fresh
\* fallback config made from its own previous one, and the sequence of calls
\* and the outcome are those the request has when it runs alone with the same
\* backend responses; the settings and fallback_enabled stay as they were.
C32_RequestsDoNotInterfere ==
    peer.id # "none" =>
       /\ \A r \in Requests : AsAlone(r)
       /\ settings = DefaultSettings
       /\ fallback_enabled

\* one request has fallen back and ended while the other, given another
\* provider, is suspended between its failed call and its fallback call
C32_Witness ==
    /\ peer.id # "none"
    /\ pc = "done"
    /\ Len(attempts) = 2
    /\ attempts[2].config.original_provider = config.provider
    /\ peer.pc = "fallback"
    /\ peer.config.provider # config.provider
    /\ peer.cur.original_provider = peer.config.provider

----------------------------------------------------------------------------
(* ask and its arguments *)

\* C33: ask leaves its argument as it was: when ask has ended, on whatever
\* path, the list the caller passed has the length it had and every message
\* in it has the role and the content it had before the call.
C33_ArgumentsUntouched ==
    apc = "done" =>
       /\ Len(messages) = Len(input)
       /\ \A i \in 1..Len(input) :
             /\ messages[i].role = input[i].role
             /\ messages[i].content = input[i].content

\* the same on the paths that install nothing over a leading system message
C33_UntouchedUnlessReplaced ==
    (apc = "done" /\ ~(results # <<>> /\ has_leading_system(input))) =>
       messages = input

----------------------------------------------------------------------------
(* Streaming: a consumer that goes away *)

\* the consumer has abandoned the response
Abandoned == result.kind = "closed"

\* C34: once the consumer has abandoned a streaming response that was not
\* exhausted, the connection and the client are released, and nothing happens
\* any more: no further line of the backend is read, no further increment is
\* emitted, and no state of the gateway changes.
C34_AbandonStopsTheStream ==
    /\ [](Abandoned => ~ConnectionHeld)
    /\ [][Abandoned => UNCHANGED gateway_vars]_vars

\* a response abandoned after its first increment with a line still to come
C34_Witness ==
    /\ Abandoned
    /\ nlines = 1
    /\ Len(out) = 1
    /\ Len(frames) = 2
    /\ CarriesContent(Adapter(cur), frames[2])

\* chat has returned or raised
ChatEnded == pc \notin {"chat", "fallback"}

\* C35: provided every backend call ends, every call of chat ends, returning
\* or raising; a request makes at most 1 + len(FALLBACK_CHAIN) backend calls,
\* and no two of them go to the same provider.
C35_ChatTerminatesWithinTheChain ==
    /\ [](Len(attempts) <= 1 + Len(FALLBACK_CHAIN))
    /\ [](\A i, j \in 1..Len(attempts) :
             i # j => attempts[i].config.provider # attempts[j].config.provider)
    /\ <>ChatEnded

\* chat ended with the exception of a fallback hop that failed after the
\* original provider had failed
C35_Witness ==
    /\ ChatEnded
    /\ Len(attempts) = 2
    /\ RetryableFailure(attempts[1])
    /\ Last.exc = "ConnectError"
    /\ result.kind = "raise"

\* the config c has the preset endpoint and default model of its provider and
\* the key the settings hold for it, and not the key of the request
UsesOwnPreset(c) ==
    /\ c.provider \in DOMAIN PRESET_PROVIDERS
    /\ c.base_url = PRESET_PROVIDERS[c.provider].base_url
    /\ c.model = PRESET_PROVIDERS[c.provider].default_model
    /\ c.api_key = get_api_key(settings, c.provider)
    /\ Truthy(req.api_key) => c.api_key # req.api_key
    /\ Truthy(req.model) => c.model # req.model

\* C36: the key and the model of the request are used for the call to the
\* resolved provider only: every fallback hop, called or about to be called,
\* has the preset endpoint and default model of its own provider and the key
\* the settings hold for that provider, never the key of the request.
C36_FallbackUsesOwnCredentials ==
    /\ \A i \in 2..Len(attempts) : UsesOwnPreset(attempts[i].config)
    /\ pc = "fallback" => UsesOwnPreset(cur)

\* a request that brought its own key and model was called with them at the
\* resolved provider and has made a fallback hop
C36_Witness ==
    /\ Len(attempts) = 2
    /\ req.api_key = "sk-user"
    /\ req.model = "my-model"
    /\ attempts[1].config.api_key = "sk-user"
    /\ attempts[1].config.model = "my-model"
    /\ attempts[2].config.is_fallback

\* the record x is the input candidate i as far as id, content and metadata go
SameCandidate(x, i) ==
    /\ x.id = documents[i].id
    /\ x.content = documents[i].content
    /\ x.metadata = documents[i].metadata

\* C37: when the query embedding was computed, every record rerank returns is
\* one of the input candidates with its id, content and metadata unchanged,
\* no input candidate is returned twice, and no step of rerank changes the
\* input list or a record in it.
C37_OutputIsInputCandidates ==
    /\ []((RerankDone /\ ret.returned /\ QueryEmbedded) =>
            /\ \A j \in 1..Len(ret.value) :
                  \E i \in 1..Len(documents) : SameCandidate(ret.value[j], i)
            /\ \A j, k \in 1..Len(ret.value) :
                  j # k => ret.value[j].id # ret.value[k].id)
    /\ [][documents' = documents]_vars

\* three candidates were scored into new records and the two best returned,
\* the last of the input first
C37_Witness ==
    /\ RerankDone /\ ret.returned /\ QueryEmbedded
    /\ Len(documents) = 3
    /\ Len(ret.value) = 2
    /\ ret.value[1].id = documents[3].id
    /\ "rerank_score" \in DOMAIN ret.value[1]
    /\ "rerank_score" \notin DOMAIN documents[3]

\* the similarity rerank used for candidate i: the cosine of the two
\* embeddings when the candidate's was fetched, 0 when the fetch failed
SimilarityUsed(i) ==
    IF FetchOf(i).state = "returned"
    THEN SpecSimilarity(FetchOf(0).embedding.items, FetchOf(i).embedding.items)
    ELSE 0

\* the record x keeps what the score of candidate i was worked out from
RetainsScores(x, i) ==
    /\ "score" \in DOMAIN documents[i] => x.original_score = documents[i].score
    /\ x.rerank_score = SimilarityUsed(i)

\* the score of x is the fusion of the two scores x retains
FusedFromRetained(x, i) ==
    IF FetchOf(i).state = "returned"
    THEN 10 * x.score = ORIGINAL_WEIGHT * x.original_score
                          + SIMILARITY_WEIGHT * x.rerank_score
    ELSE x.score = x.original_score

\* C38: when the query embedding was computed, every returned record retains
\* as original_score the score the candidate had on input and as rerank_score
\* the similarity used, and its score is 0.3 * original_score + 0.7 *
\* rerank_score when its fetch succeeded and original_score when it failed;
\* for every candidate, one without a score field included.
C38_RetainedScoresConsistent ==
    (RerankDone /\ ret.returned /\ QueryEmbedded /\ WellFormed) =>
        \A j \in 1..Len(ret.value) :
            LET x == ret.value[j]
                i == InputIndex(x)
            IN  RetainsScores(x, i) /\ FusedFromRetained(x, i)

\* the same for the candidates that have a score field, and the retained
\* values for all
C38_ConsistentWhenScored ==
    (RerankDone /\ ret.returned /\ QueryEmbedded /\ WellFormed) =>
        \A j \in 1..Len(ret.value) :
            LET x == ret.value[j]
                i == InputIndex(x)
            IN  /\ RetainsScores(x, i)
                /\ "score" \in DOMAIN documents[i] => FusedFromRetained(x, i)

\* the input of ask has a message of role user
HasUserMessage == \E i \in 1..Len(input) : input[i].role = "user"

\* C39: with rag false and an input that has a user message, ask calls
\* neither the embedding service, the vector store nor the reranker, at any
\* point; when it has ended it has called chat exactly once, with a list
\* equal to the input, message by message in the same order.
C39_NoRetrievalWhenOff ==
    (~rag /\ HasUserMessage) =>
        /\ called.search = <<>>
        /\ called.embed = <<>>
        /\ called.store = <<>>
        /\ called.rerank = <<>>
        /\ rpc = "idle"
        /\ apc = "done" => called.chat = <<input>>
        /\ apc # "done" => called.chat = <<>>

\* a system message and a question went to chat as they came, with rag false
C39_Witness ==
    /\ ~rag
    /\ apc = "done"
    /\ Len(input) = 2
    /\ input[1].role = "system"
    /\ input[2].role = "user"
    /\ Truthy(input[2].content)
    /\ called.chat = <<input>>

====
